---- MODULE Spec2Model ----
(***************************************************************************)
(* Beep/boop directory coordination (thesammykins/beep_boop_mcp).          *)
(*                                                                         *)
(* One directory, its two marker files (beep = released, boop = held) and  *)
(* the four coordination tools working on it: create_beep, update_boop,    *)
(* end_work and check_status.  Every filesystem call of a tool is one      *)
(* step, so that the calls of several MCP server processes interleave the  *)
(* way they do on a shared directory.                                      *)
(*                                                                         *)
(*   Spec     the tools called concurrently by the processes of Procs      *)
(*   SeqSpec  the same steps, one call at a time, from any marker state    *)
(*   AgeSpec  check_status on a hold record of any age, for any threshold  *)
(*                                                                         *)
(* and the client through which a tool delegates to the central listener:  *)
(*                                                                         *)
(*   ClientSpec      post calls overlapping on the semaphore of the client *)
(*   FairClientSpec  the same, every request and continuation completing   *)
(*   TimeoutSpec     one post call, for a body of any length               *)
(***************************************************************************)
EXTENDS Integers, Sequences, FiniteSets, TLC

(***************************************************************************)
(* Bounds of the model.                                                    *)
(***************************************************************************)
\* SeqSpec: the wall clock runs 0..MaxTime, in hours
MaxTime == 2

\* Spec: the wall clock runs 0..MaxOverlapTime, in hours
MaxOverlapTime == 1

\* AgeSpec: hold timestamps, clock readings and thresholds are 0..MaxHour
MaxHour == 26

\* ClientSpec: maxConcurrentListenerRequests is one of 1..MaxSlots
MaxSlots == 2

\* TimeoutSpec: a serialized body is 0..MaxBodyLen characters long
MaxBodyLen == 20000

\* createdAt of the records runs over 0 .. MaxStamp
MaxStamp == 2

\* new Date() when the conversation is initiated
InitiatedAt == 1

\* NotifySpec: notificationRetryAttempts is one of 1..MaxRetryAttempts
MaxRetryAttempts == 2

\* NotifySpec: the millisecond clock advances at most MaxNotifyTicks times
MaxNotifyTicks == 1

Procs == {"p1", "p2"}

\* the post calls that may be in progress at a time
Calls == {"c1", "c2", "c3"}

(***************************************************************************)
(* Agent ids are sequences of one-character strings.                       *)
(***************************************************************************)
\* JavaScript's undefined (and the empty string): both are falsy
Undefined == <<>>

AgentA == <<"a">>
AgentB == <<"b">>
\* "a" with a leading blank: another string, the same id once trimmed
AgentPadA == <<" ", "a">>
\* a character outside [a-zA-Z0-9._-]
AgentBang == <<"a", "!">>
\* 101 characters: longer than the fixed limit of validateAgentId
AgentLong == [i \in 1..101 |-> "x"]

\* the characters of /^[a-zA-Z0-9._-]+$/ that the ids of the model use
ValidChars == {"a", "b", "x", ".", "_", "-"}

RECURSIVE TrimStart(_)
TrimStart(s) ==
  IF s # <<>> /\ Head(s) = " " THEN TrimStart(Tail(s)) ELSE s

RECURSIVE TrimEnd(_)
TrimEnd(s) ==
  IF s # <<>> /\ s[Len(s)] = " " THEN TrimEnd(SubSeq(s, 1, Len(s) - 1)) ELSE s

\* String.prototype.trim
Trim(s) == TrimEnd(TrimStart(s))

\* String.prototype.startsWith
StartsWith(s, prefix) ==
  /\ Len(prefix) <= Len(s)
  /\ SubSeq(s, 1, Len(prefix)) = prefix

\* validPattern.test: one or more characters, each of the class
MatchesValidPattern(s) ==
  /\ Len(s) > 0
  /\ \A i \in 1..Len(s) : s[i] \in ValidChars

(***************************************************************************)
(* Configuration (loadConfig): the part agent-id validation reads.         *)
(***************************************************************************)
DefaultConfig ==
  [maxAgentIdLength |-> 100, requireTeamPrefix |-> FALSE, teamPrefixes |-> {},
   allowedDirectories |-> {},
   blockedDirectories |-> { <<"/", "t", "m", "p">>, <<"/", "v", "a", "r">>,
                            <<"/", "e", "t", "c">> }]

\* BEEP_BOOP_MAX_AGENT_ID_LENGTH=200 (validateConfig admits 1..500)
WideConfig == [DefaultConfig EXCEPT !.maxAgentIdLength = 200]

\* BEEP_BOOP_REQUIRE_TEAM_PREFIX=true, BEEP_BOOP_TEAM_PREFIXES=b
PrefixConfig ==
  [DefaultConfig EXCEPT !.requireTeamPrefix = TRUE, !.teamPrefixes = {<<"b">>}]

Configs == {DefaultConfig, WideConfig, PrefixConfig}

\* the path of the directory of the markers, and the paths of the lists
Directory == <<"/", "w", "/", "d">>

Workspace == <<"/", "w">>

Elsewhere == <<"/", "x">>

\* BEEP_BOOP_BLOCKED_DIRECTORIES and BEEP_BOOP_ALLOWED_DIRECTORIES: the
\* directory under a blocked prefix, outside the allow-list, blocked inside
\* the allow-list, and admitted by an allow-list and by a list of blocked
\* paths
AccessConfigs ==
  { [DefaultConfig EXCEPT !.blockedDirectories = {Workspace}],
    [DefaultConfig EXCEPT !.allowedDirectories = {Elsewhere}],
    [DefaultConfig EXCEPT !.allowedDirectories = {Workspace},
                          !.blockedDirectories = {Directory}],
    [DefaultConfig EXCEPT !.allowedDirectories = {Workspace},
                          !.blockedDirectories = {Elsewhere}] }

isDirectoryAllowed(path, cfg) ==
  IF \E blocked \in cfg.blockedDirectories : StartsWith(path, blocked)
  THEN FALSE
  ELSE IF cfg.allowedDirectories = {} THEN TRUE
  ELSE \E allowed \in cfg.allowedDirectories : StartsWith(path, allowed)

validateAgentIdPrefix(agentId, cfg) ==
  IF ~cfg.requireTeamPrefix THEN TRUE
  ELSE IF cfg.teamPrefixes = {} THEN TRUE
  ELSE \E prefix \in cfg.teamPrefixes : StartsWith(agentId, prefix)

validateAgentIdWithConfig(agentId, cfg) ==
  IF agentId = Undefined THEN FALSE
  ELSE LET trimmed == Trim(agentId) IN
    IF Len(trimmed) = 0 THEN FALSE
    ELSE IF Len(trimmed) > cfg.maxAgentIdLength THEN FALSE
    ELSE IF ~validateAgentIdPrefix(trimmed, cfg) THEN FALSE
    ELSE MatchesValidPattern(trimmed)

validateAgentId(agentId) ==
  IF agentId = Undefined THEN FALSE
  ELSE LET trimmed == Trim(agentId) IN
    IF Len(trimmed) = 0 THEN FALSE
    ELSE IF Len(trimmed) > 100 THEN FALSE
    ELSE MatchesValidPattern(trimmed)

(***************************************************************************)
(* The marker files.                                                       *)
(***************************************************************************)
NoFile == [exists |-> FALSE]

\* no timestamp (a Date left undefined)
NoTime == -1

\* JSON.stringify of BeepFileContent, written at time t; the free-text
\* message is carried nowhere in the model
BeepFileContent(t, completedBy) ==
  [exists |-> TRUE, mtime |-> t, completedBy |-> completedBy]

\* JSON.stringify of BoopFileContent, written at time t
BoopFileContent(t, agentId, workDescription) ==
  [exists |-> TRUE, mtime |-> t, blank |-> FALSE,
   agentId |-> Trim(agentId), workDescription |-> workDescription]

\* a boop file with no content, as left by a tool other than this server
BlankBoopFile(t) ==
  [exists |-> TRUE, mtime |-> t, blank |-> TRUE,
   agentId |-> Undefined, workDescription |-> "none"]

\* the state as a test of the boop file before the beep file gives it
WorkStateOfBoopFirst(beepExists, boopExists) ==
  IF boopExists THEN "work_in_progress"
  ELSE IF beepExists THEN "work_allowed"
  ELSE "no_coordination"

\* the state getWorkStatus derives from the presence of the two files
WorkStateOf(beepExists, boopExists) ==
  IF beepExists /\ ~boopExists THEN "work_allowed"
  ELSE IF boopExists /\ ~beepExists THEN "work_in_progress"
  ELSE IF ~beepExists /\ ~boopExists THEN "no_coordination"
  ELSE "invalid_state"

MsPerHour == 3600000

\* staleness that begins at the threshold itself
isFileStaleInclusive(timestamp, current, maxAgeHours) ==
  LET ageInMs == (current - timestamp) * MsPerHour
      maxAgeMs == maxAgeHours * MsPerHour
  IN ageInMs >= maxAgeMs

isFileStale(timestamp, current, maxAgeHours) ==
  LET ageInMs == (current - timestamp) * MsPerHour
      maxAgeMs == maxAgeHours * MsPerHour
  IN ageInMs > maxAgeMs

(***************************************************************************)
(* State.                                                                  *)
(***************************************************************************)
VARIABLES
  beep,     \* the released marker of the directory: NoFile or its content
  boop,     \* the held marker of the directory: NoFile or its content
  now,      \* the wall clock (new Date()), in hours
  config,   \* what loadConfig returns
  pc,       \* pc[p]: where the tool call of process p stands
  arg,      \* arg[p]: the parameters and locals of the call
  st,       \* st[p]: the WorkStatus the call last obtained
  res,      \* res[p]: the ToolResponse of the call
  eff,      \* eff[p]: the changes the call made to the markers
  faulted,  \* a filesystem call has failed
  pre,      \* SeqSpec: markers and clock when the current call started
  prev      \* SeqSpec: the call that completed last

\* the HttpListenerClient of the process (listenerClient) and its calls
VARIABLES
  lcfg,     \* this.cfg: the configuration the client was constructed with
  counter,  \* Semaphore.counter: the free slots
  queue,    \* Semaphore.queue: the waiting attempts, oldest first
  cpc,      \* cpc[c]: where the post call c stands
  call      \* call[c]: the parameters, locals and result of the post call c

\* the InboxStore of the process and its call of initiate_conversation
VARIABLES
  inboxDir,      \* the ids of the records in ingressInboxDir
  processedDir,  \* the ids of the records in ingressInboxDir/processed
  content,       \* content[id]: the record written under the id
  conv,          \* the call of handleInitiateConversation and its locals
  clock          \* Date.now(), in milliseconds

dirVars == <<beep, boop, now, config, pc, arg, st, res, eff, faulted, pre, prev>>

clientVars == <<lcfg, counter, queue, cpc, call>>

inboxVars == <<inboxDir, processedDir, content, conv, clock>>

\* the HTTP server of the listener process
VARIABLES
  ingressToken,  \* config.ingressHttpAuthToken
  http           \* the request received last and its answer

listenerVars == <<ingressToken, http>>

\* the webhook notifications of the tool handlers
VARIABLES
  ncfg,      \* the notification settings of what loadConfig returns
  blockRun,  \* blockRun[p]: the notification blocks the call of p has executed
  managers,  \* managers[g]: the NotificationManager g, while a promise holds it
  sent       \* sent[s]: the sends to service s that failed last, in a row

notifyVars == <<ncfg, blockRun, managers, sent>>

\* what a status query could have seen
VARIABLES
  seen       \* seen[p]: the marker pairs the directory went through since
             \* the call of p began

queryVars == <<seen>>

\* the Discord listener's call of InboxStore.updateThreadId
VARIABLES
  upd        \* where the call stands, the id, the record read, the result

threadVars == <<upd>>

restVars == <<inboxVars, listenerVars, notifyVars, queryVars, threadVars>>

nonInboxVars ==
  <<dirVars, clientVars, listenerVars, notifyVars, queryVars, threadVars>>

vars == <<dirVars, clientVars, restVars>>

NoArg ==
  [op |-> "none", agentId |-> Undefined, maxAgeHours |-> 0,
   autoCleanStale |-> FALSE, newAgentId |-> Undefined,
   phase |-> "first", claimed |-> FALSE]

NoStatus ==
  [beepExists |-> FALSE, boopExists |-> FALSE, agentId |-> Undefined,
   boopTimestamp |-> NoTime, status |-> "none"]

NoRes ==
  [ok |-> FALSE, code |-> "none", holder |-> Undefined, status |-> "none",
   stale |-> FALSE, cleanedUp |-> FALSE, claimed |-> FALSE]

NoPrev == [op |-> "none", agentId |-> Undefined, ok |-> FALSE]

\* a successful response
Success(code) == [NoRes EXCEPT !.ok = TRUE, !.code = code]

\* a response with isError: true
Failure(code) == [NoRes EXCEPT !.code = code]

Markers == [beep |-> beep, boop |-> boop, now |-> now]

AllIdle == \A q \in Procs : pc[q] = "idle"

\* the agent ids the callers of update_boop and end_work pass: all of them
\* when calls run one at a time (seq), two well-formed ones when they overlap
CallerAgentIds(seq) ==
  IF seq THEN {AgentA, AgentB, AgentPadA, AgentBang} ELSE {AgentA, AgentB}

\* the newAgentId values the callers of check_status pass
NewAgentIds(seq) ==
  IF seq THEN {Undefined, AgentA, AgentB, AgentBang, AgentLong}
  ELSE {Undefined, AgentB}

\* the maxAgeHours values the callers of check_status pass
MaxAges(seq) == IF seq THEN {0, 1} ELSE {0}

TypeOK ==
  /\ beep.exists \in BOOLEAN
  /\ boop.exists \in BOOLEAN
  /\ now \in Nat
  /\ config \in Configs
  /\ \A p \in Procs : pc[p] \in
       {"idle", "gsBeep", "gsBoop", "gsMeta", "cbWrite", "ubUnlink", "ubWrite",
        "ewRemove", "ewBeep", "ewRestore", "csRemove", "csClaim", "done"}
  /\ faulted \in BOOLEAN

(***************************************************************************)
(* The delegation client (HttpListenerClient): its configuration, the      *)
(* bodies it is given, what the listener answers, and the results of post. *)
(***************************************************************************)
\* the part of BeepBoopConfig the client reads; t = <<base, perChar, max>>
ListenerConfig(enabled, baseUrl, slots, t) ==
  [listenerEnabled |-> enabled,
   listenerBaseUrl |-> baseUrl,
   listenerTimeoutBaseMs |-> t[1],
   listenerTimeoutPerCharMs |-> t[2],
   listenerTimeoutMaxMs |-> t[3],
   maxConcurrentListenerRequests |-> slots]

\* what loadConfig returns with no variable of the environment set
DefaultListenerConfig ==
  ListenerConfig(FALSE, "http://localhost:7077", 25, <<10000, 5, 60000>>)

\* a base URL, or none (the empty string is falsy as undefined is)
ListenerUrls == {"http://localhost:7077", ""}

\* base, perChar and max as validateConfig admits them (base >= 1000,
\* max >= base)
TimeoutSettings ==
  {<<1000, 5, 60000>>, <<10000, 5, 60000>>, <<1000, 0, 1000>>, <<60000, 5, 60000>>}

ListenerConfigs ==
  {ListenerConfig(enabled, baseUrl, slots, <<1000, 5, 60000>>) :
     enabled \in BOOLEAN, baseUrl \in ListenerUrls, slots \in 1..MaxSlots}

TimeoutConfigs ==
  {ListenerConfig(TRUE, "http://localhost:7077", 1, t) : t \in TimeoutSettings}

\* a body whose JSON.stringify is textLen characters long
Payload(textLen) == [serializable |-> TRUE, textLen |-> textLen]

\* a body JSON.stringify throws on (a circular structure, a BigInt)
Circular == [serializable |-> FALSE, textLen |-> 0]

ClientPayloads == {Payload(10), Circular}

TimeoutPayloads == {Payload(n) : n \in 0..MaxBodyLen} \cup {Circular}

Min(a, b) == IF a <= b THEN a ELSE b

\* a timeout that grows with the body without a cap
buildTimeoutMsUncapped(payload, cfg) ==
  IF payload.serializable
  THEN cfg.listenerTimeoutBaseMs + (payload.textLen * cfg.listenerTimeoutPerCharMs)
  ELSE cfg.listenerTimeoutBaseMs

buildTimeoutMs(payload, cfg) ==
  IF payload.serializable
  THEN LET adaptive == cfg.listenerTimeoutBaseMs
                         + (payload.textLen * cfg.listenerTimeoutPerCharMs)
       IN Min(cfg.listenerTimeoutMaxMs, adaptive)
  ELSE cfg.listenerTimeoutBaseMs

\* the statuses the listener answers with
RemoteStatuses == {200, 299, 300, 404}

\* the body of an answer: not JSON, or JSON with its error field ("" when
\* it has none)
NotJson == [json |-> FALSE, error |-> ""]

JsonBody(error) == [json |-> TRUE, error |-> error]

RemoteBodies == {NotJson, JsonBody(""), JsonBody("remote error")}

\* Response.ok
ResponseOk(status) == status >= 200 /\ status <= 299

NoResult == [ok |-> FALSE, status |-> 0, error |-> "none", data |-> NotJson]

\* the result of post when delegation is not configured
Unavailable ==
  [ok |-> FALSE, status |-> 503, error |-> "Listener not enabled", data |-> NotJson]

\* a result that takes every answer of the listener for a success
responseResultAlwaysOk(status, body) ==
  [ok |-> TRUE, status |-> status, error |-> "", data |-> body]

\* the result of post for an answer of the listener
responseResult(status, body) ==
  IF ResponseOk(status)
  THEN [ok |-> TRUE, status |-> status, error |-> "", data |-> body]
  ELSE [ok |-> FALSE, status |-> status,
        error |-> IF body.json /\ body.error # "" THEN body.error ELSE "statusText",
        data |-> NotJson]

\* the result of post for an error caught
catchResult(isAbort) ==
  [ok |-> FALSE,
   status |-> IF isAbort THEN 408 ELSE 500,
   error |-> IF isAbort THEN "Listener timed out" ELSE "Listener error",
   data |-> NotJson]

\* an attempt that takes a slot whether one is free or not
attemptAlways(cnt, q, c) ==
  [counter |-> cnt - 1, queue |-> q, resolved |-> {c}]

\* Semaphore.acquire, the closure attempt of the call c: the counter and
\* the queue after it, and the call it resolved
attempt(cnt, q, c) ==
  IF cnt > 0
  THEN [counter |-> cnt - 1, queue |-> q, resolved |-> {c}]
  ELSE [counter |-> cnt, queue |-> Append(q, c), resolved |-> {}]

\* a release that wakes the attempt queued last
releaseNewestFirst(cnt, q) ==
  IF q # <<>>
  THEN attempt(cnt + 1, SubSeq(q, 1, Len(q) - 1), q[Len(q)])
  ELSE [counter |-> cnt + 1, queue |-> q, resolved |-> {}]

\* a release that gives back two slots
releaseTwice(cnt, q) ==
  IF q # <<>>
  THEN attempt(cnt + 2, Tail(q), Head(q))
  ELSE [counter |-> cnt + 2, queue |-> q, resolved |-> {}]

\* the release function acquire resolves with: counter++, then the attempt
\* queue.shift() returns is run
release(cnt, q) ==
  IF q # <<>>
  THEN attempt(cnt + 1, Tail(q), Head(q))
  ELSE [counter |-> cnt + 1, queue |-> q, resolved |-> {}]

\* the tool whose handler makes the post call c, and the path it posts to
ToolOf(c) ==
  CASE c = "c1" -> "check_status"
    [] c = "c2" -> "update_user"
    [] OTHER -> "initiate_conversation"

\* no ToolResponse yet
NoResponse == [isError |-> FALSE, text |-> "none", status |-> 0]

\* the ToolResponse a handler that delegates makes of the result of post:
\* the text of the listener, or the error of the listener as its own error
delegatedResponse(ret) ==
  IF ret.ok
  THEN [isError |-> FALSE, text |-> "listener text", status |-> ret.status]
  ELSE [isError |-> TRUE, text |-> "Listener error", status |-> ret.status]

\* no post call: its body, its place in the queue when it began to wait,
\* its timer, the request it sent, what came of it, its result, and the
\* ToolResponse the handler made of the result
NoCall ==
  [payload |-> Circular, waited |-> FALSE, behind |-> 0, timeoutMs |-> 0,
   timer |-> "none", sent |-> FALSE, outcome |-> "none", status |-> 0,
   body |-> NotJson, ret |-> NoResult, response |-> NoResponse]

(***************************************************************************)
(* The inbox (InboxStore) and the reply correlation of                     *)
(* handleInitiateConversation: the pure part.                              *)
(***************************************************************************)
\* the ids of the records: m0 is the record of the conversation initiated,
\* the others are captured by the platform listeners
InitiatingId == "m0"

CapturedIds == {"m1", "m2"}

MsgIds == {InitiatingId} \cup CapturedIds

Platforms == {"discord", "slack"}

\* the channel the conversation is initiated in, and another one
Channels == {"C1", "C2"}

\* undefined, the thread of the conversation (on Slack the ts of the
\* message sent, on Discord the id of the thread created), and another one
NoThread == "undefined"

Threads == {NoThread, "t1", "t2"}

\* agentId || 'system', and a user of the platform
InitiatorId == "agentX"

AuthorIds == {InitiatorId, "userY"}

\* createdAt of a record captured: before, at and after InitiatedAt
Stamps == 0 .. MaxStamp

\* an IngressMessage; a Discord record carries context.threadId, a Slack
\* record context.threadTs
IngressMessage(platform, authorId, channelId, thread, createdAt) ==
  [platform |-> platform,
   authoredBy |-> authorId,
   context |-> [channelId |-> channelId,
                threadId |-> IF platform = "discord" THEN thread ELSE NoThread,
                threadTs |-> IF platform = "slack" THEN thread ELSE NoThread],
   createdAt |-> createdAt]

\* no record under the id
NoMsg == IngressMessage("none", "none", "none", NoThread, 0)

\* the records the listeners can capture
CapturedMessages ==
  { IngressMessage(pf, au, ch, th, t) :
      pf \in Platforms, au \in AuthorIds, ch \in Channels, th \in Threads,
      t \in Stamps }

\* the records of a user, later than the conversation, in its channel
ChannelReplies ==
  { IngressMessage(pf, "userY", "C1", th, InitiatedAt + 1) :
      pf \in Platforms, th \in {NoThread, "t1"} }

\* const maxWaitTimeMs = 5 * 60 * 1000
MaxWaitTimeMs == 5 * 60 * 1000

\* const pollIntervalMs = 2000
PollIntervalMs == 2000

\* no call of initiate_conversation
NoOutcome == [kind |-> "none", isError |-> FALSE, id |-> "none"]

NoConv ==
  [pc |-> "idle", platform |-> "none", channelId |-> "none",
   messageId |-> NoThread, threadId |-> NoThread, agentId |-> "none",
   createdAt |-> 0, startTime |-> 0, pollCount |-> 0, listing |-> <<>>,
   listed |-> {}, ackedBefore |-> {}, outcome |-> NoOutcome]

\* isReply: the record is in the thread of the conversation (Discord), or
\* in its thread or its channel (Slack); the test of the channel left out
isReplyThreadOnly(msg, c) ==
  IF c.platform = "discord"
  THEN msg.context.threadId = c.threadId
  ELSE msg.context.threadTs = c.messageId

isReply(msg, c) ==
  IF c.platform = "discord"
  THEN msg.context.threadId = c.threadId
  ELSE msg.context.threadTs = c.messageId \/ msg.context.channelId = c.channelId

\* isUserMessage with a comparison of the times that admits equal ones
isUserMessageNotEarlier(msg, c) ==
  msg.authoredBy # c.agentId /\ msg.createdAt >= c.createdAt

\* isUserMessage: not our own message and newer than our message
isUserMessage(msg, c) ==
  msg.authoredBy # c.agentId /\ msg.createdAt > c.createdAt

\* the test of the polling loop on a record read
qualifies(msg, c) ==
  /\ msg # NoMsg
  /\ msg.platform = c.platform
  /\ isReply(msg, c)
  /\ isUserMessage(msg, c)

\* a deadline that admits the poll at the deadline itself
withinDeadlineInclusive(current, startTime) ==
  current - startTime <= MaxWaitTimeMs

\* the test of the polling loop: Date.now() - startTime < maxWaitTimeMs
withinDeadline(current, startTime) ==
  current - startTime < MaxWaitTimeMs

\* the records in the thread of the conversation, of any author and time
ThreadMessages ==
  { IngressMessage(pf, au, "C1", "t1", t) :
      pf \in Platforms, au \in AuthorIds, t \in Stamps }

\* InboxStore.list: the ids of the files of the inbox directory
list(inboxFiles, processedFiles) == inboxFiles

\* InboxStore.read: the record of the file, null when there is none
read(inboxFiles, records, id) ==
  IF id \in inboxFiles THEN records[id] ELSE NoMsg

\* an ack that copies the file and leaves the original in place
ackCopying(inboxFiles, processedFiles, id) ==
  [inbox |-> inboxFiles, processed |-> processedFiles \cup {id}]

\* InboxStore.ack: rename of the file into processed
ack(inboxFiles, processedFiles, id) ==
  [inbox |-> inboxFiles \ {id}, processed |-> processedFiles \cup {id}]

\* the orders in which readdir can give the ids
RECURSIVE Orders(_)
Orders(ids) ==
  IF ids = {} THEN {<<>>}
  ELSE UNION { { <<id>> \o rest : rest \in Orders(ids \ {id}) } : id \in ids }

\* an empty inbox, no conversation initiated
InitInbox ==
  /\ inboxDir = {}
  /\ processedDir = {}
  /\ content = [id \in MsgIds |-> NoMsg]
  /\ conv = NoConv
  /\ clock = InitiatedAt

(***************************************************************************)
(* The HTTP server of the listener (startHttpServer): the pure part.       *)
(***************************************************************************)
\* 'Bearer '
BearerPrefix == <<"B", "e", "a", "r", "e", "r", " ">>

\* no ingressHttpAuthToken configured, and a token
NoToken == <<>>

Token == <<"s", "3">>

\* the Authorization headers of the requests: none, the token as Bearer,
\* a wrong token, and the token after a lowercase scheme
Authorizations ==
  { <<>>,
    BearerPrefix \o Token,
    BearerPrefix \o <<"s">>,
    <<"b", "e", "a", "r", "e", "r", " ">> \o Token }

\* the requests: the routes that write, one that reads, and a method the
\* path has no route for
Requests ==
  { [method |-> "POST", path |-> "/messages/m1/ack"],
    [method |-> "POST", path |-> "/mcp/check_status"],
    [method |-> "POST", path |-> "/mcp/update_user"],
    [method |-> "POST", path |-> "/mcp/initiate_conversation"],
    [method |-> "GET", path |-> "/messages"],
    [method |-> "GET", path |-> "/mcp/check_status"] }

\* auth.slice(7)
SliceFrom7(auth) == SubSeq(auth, 8, Len(auth))

\* a check that takes any Bearer header
authorizedByScheme(auth, token) ==
  token = NoToken \/ StartsWith(auth, BearerPrefix)

\* the request passes the check of the token: no token is configured, or
\* the header starts with 'Bearer ' and the rest is the token
authorized(auth, token) ==
  \/ token = NoToken
  \/ StartsWith(auth, BearerPrefix) /\ SliceFrom7(auth) = token

\* no answer yet: the handler of the route is at work
Pending == 0

\* no request received
NoRequest ==
  [method |-> "none", path |-> "none", auth |-> <<>>, status |-> Pending]

InitListener ==
  /\ ingressToken = NoToken
  /\ http = NoRequest

(***************************************************************************)
(* NotificationManager (notification-service.ts) and the notification      *)
(* blocks of the tool handlers: the pure part.                             *)
(***************************************************************************)
Services == {"slack", "discord"}

\* the NotificationManager objects alive at a time
Managers == {"g1", "g2", "g3"}

\* BEEP_BOOP_ENABLE_NOTIFICATIONS is not set
DefaultNotifyConfig ==
  [enableNotifications |-> FALSE, notificationRetryAttempts |-> 3,
   services |-> {}]

\* notifications disabled, enabled for one service with any number of
\* attempts, or enabled for both (getTargetServices)
NotifyConfigs ==
  {DefaultNotifyConfig} \cup
  {[enableNotifications |-> TRUE, notificationRetryAttempts |-> n,
    services |-> {"discord"}] : n \in 1..MaxRetryAttempts} \cup
  {[enableNotifications |-> TRUE, notificationRetryAttempts |-> 1,
    services |-> Services]}

\* { failures: 0, isOpen: false }
ClosedCircuit == [failures |-> 0, lastFailure |-> NoTime, isOpen |-> FALSE]

\* no manager: none was constructed, or nothing refers to it any more
NoManager ==
  [owner |-> "none", type |-> "none", sending |-> {},
   breaker |-> [s \in Services |-> ClosedCircuit]]

\* initializeWebhooks, at the end of the constructor
NewManager(p, type) == [NoManager EXCEPT !.owner = p, !.type = type]

\* resetTime
ResetTimeMs == 5 * 60 * 1000

\* handleWebhookError: the state of the circuit after a failed send
handleWebhookError(state, current, retryAttempts) ==
  LET failures == state.failures + 1 IN
    [failures |-> failures,
     lastFailure |-> current,
     isOpen |-> state.isOpen \/ failures >= retryAttempts]

\* isCircuitBreakerOpen: its answer, and the state it leaves
isCircuitBreakerOpen(state, current) ==
  IF ~state.isOpen
  THEN [open |-> FALSE, state |-> state]
  ELSE IF state.lastFailure # NoTime /\ current - state.lastFailure > ResetTimeMs
  THEN [open |-> FALSE,
        state |-> [state EXCEPT !.isOpen = FALSE, !.failures = 0]]
  ELSE [open |-> TRUE, state |-> state]

\* resetCircuitBreaker
resetCircuitBreaker(state) == ClosedCircuit

\* no send to the service has failed since the last that succeeded; during:
\* the call in progress when the last one failed has not returned yet
NoneFailed == [failures |-> 0, lastFailure |-> NoTime, during |-> FALSE]

\* the notification blocks the handler has reached the end of, at the
\* position of the call: WORK_STARTED before update_boop returns for a
\* directory that was not held, WORK_COMPLETED before end_work returns,
\* STALE_DETECTED before the cleanup of check_status and CLEANUP_PERFORMED
\* after it
blocksReached(enabled, a, position, status, response) ==
  IF ~enabled THEN 0
  ELSE IF a.op = "update_boop"
  THEN IF position = "done" /\ response.ok /\ status.status # "work_in_progress"
       THEN 1 ELSE 0
  ELSE IF a.op = "end_work"
  THEN IF position = "done" /\ response.ok THEN 1 ELSE 0
  ELSE IF a.op = "check_status"
  THEN IF a.phase = "after" THEN 2
       ELSE IF position \in {"csRemove", "csClaim"} THEN 1
       ELSE 0
  ELSE 0

\* the NotificationType of the block the call comes to next
typeOfBlock(a, run) ==
  IF a.op = "update_boop" THEN "WORK_STARTED"
  ELSE IF a.op = "end_work" THEN "WORK_COMPLETED"
  ELSE IF run = 0 THEN "STALE_DETECTED"
  ELSE "CLEANUP_PERFORMED"

\* a handler that awaits sendNotification goes on when its sends are settled
proceedsWhenSettled(run, reached, sending) == run = reached /\ sending = {}

\* the handler goes on with the statement after a notification block once
\* the block was executed: sendNotification(payload) is not awaited
proceeds(run, reached, sending) == run = reached

InitNotify ==
  /\ ncfg = DefaultNotifyConfig
  /\ blockRun = [p \in Procs |-> 0]
  /\ managers = [g \in Managers |-> NoManager]
  /\ sent = [s \in Services |-> NoneFailed]

\* no call in progress
InitQuery == seen = [p \in Procs |-> {}]

\* no call of updateThreadId
NoUpdate == [pc |-> "idle", id |-> "none", data |-> NoMsg, ok |-> FALSE]

InitThread == upd = NoUpdate

\* the rest of the process has not started
InitRest == InitInbox /\ InitListener /\ InitNotify /\ InitQuery /\ InitThread

\* the client as constructed, with a configuration of cfgs
InitClient(cfgs) ==
  /\ lcfg \in cfgs
  /\ counter = lcfg.maxConcurrentListenerRequests
  /\ queue = <<>>
  /\ cpc = [c \in Calls |-> "idle"]
  /\ call = [c \in Calls |-> NoCall]

\* an unclaimed directory, no tool called yet
InitDirectory ==
  /\ beep = NoFile
  /\ boop = NoFile
  /\ now = 0
  /\ config = DefaultConfig
  /\ pc = [p \in Procs |-> "idle"]
  /\ arg = [p \in Procs |-> NoArg]
  /\ st = [p \in Procs |-> NoStatus]
  /\ res = [p \in Procs |-> NoRes]
  /\ eff = [p \in Procs |-> {}]
  /\ faulted = FALSE
  /\ pre = Markers
  /\ prev = NoPrev

\* the tools called concurrently on an unclaimed directory
Init == InitDirectory /\ InitClient({DefaultListenerConfig}) /\ InitRest

\* one call at a time, on a directory found in any marker state
InitSeq ==
  /\ beep \in {NoFile, BeepFileContent(0, Undefined)}
  /\ boop \in {NoFile, BlankBoopFile(0), BoopFileContent(0, AgentA, "Work in progress")}
  /\ now = 0
  /\ config \in Configs
  /\ pc = [p \in Procs |-> "idle"]
  /\ arg = [p \in Procs |-> NoArg]
  /\ st = [p \in Procs |-> NoStatus]
  /\ res = [p \in Procs |-> NoRes]
  /\ eff = [p \in Procs |-> {}]
  /\ faulted = FALSE
  /\ pre = Markers
  /\ prev = NoPrev
  /\ InitClient({DefaultListenerConfig})
  /\ InitRest

(***************************************************************************)
(* The start of a tool call: parameters, and the validation that precedes  *)
(* the first filesystem call.  seq: calls run one at a time (SeqSpec), and  *)
(* each is recorded in pre and prev.                                       *)
(***************************************************************************)
BeginCall(p, a, ok, seq) ==
  /\ pc[p] = "idle"
  /\ pc' = [pc EXCEPT ![p] = IF ok THEN "gsBeep" ELSE "done"]
  /\ arg' = [arg EXCEPT ![p] = a]
  /\ st' = [st EXCEPT ![p] = NoStatus]
  /\ res' = [res EXCEPT ![p] = IF ok THEN NoRes ELSE Failure("INVALID_AGENT_ID")]
  /\ eff' = [eff EXCEPT ![p] = {}]
  /\ pre' = IF seq THEN Markers ELSE pre
  /\ UNCHANGED <<beep, boop, now, config, faulted, prev>>

Begin(p, a, ok, seq) ==
  /\ BeginCall(p, a, ok, seq)
  /\ UNCHANGED <<clientVars, restVars>>

\* validateDirectoryAccess throws: the handler answers with the error
Deny(p, a, seq) ==
  /\ pc[p] = "idle"
  /\ pc' = [pc EXCEPT ![p] = "done"]
  /\ arg' = [arg EXCEPT ![p] = a]
  /\ st' = [st EXCEPT ![p] = NoStatus]
  /\ res' = [res EXCEPT ![p] = Failure("PERMISSION_DENIED")]
  /\ eff' = [eff EXCEPT ![p] = {}]
  /\ pre' = IF seq THEN Markers ELSE pre
  /\ UNCHANGED <<beep, boop, now, config, faulted, prev>>
  /\ UNCHANGED <<clientVars, restVars>>

\* the start of create_beep, update_boop and end_work: the access to the
\* directory is validated first
Enter(p, a, ok, seq) ==
  IF isDirectoryAllowed(Directory, config)
  THEN Begin(p, a, ok, seq)
  ELSE Deny(p, a, seq)

handleCreateBeep(p, seq) ==
  Enter(p, [NoArg EXCEPT !.op = "create_beep"], TRUE, seq)

handleUpdateBoop(p, seq) ==
  \E agentId \in CallerAgentIds(seq) :
    Enter(p, [NoArg EXCEPT !.op = "update_boop", !.agentId = agentId],
          validateAgentIdWithConfig(agentId, config), seq)

handleEndWork(p, seq) ==
  \E agentId \in CallerAgentIds(seq) :
    Enter(p, [NoArg EXCEPT !.op = "end_work", !.agentId = agentId],
          validateAgentIdWithConfig(agentId, config), seq)

\* check_status with its parameters drawn from the sets given
CheckStatusWith(p, seq, maxAges, autoCleans, newAgentIds) ==
  \E maxAgeHours \in maxAges, autoCleanStale \in autoCleans,
     newAgentId \in newAgentIds :
    Begin(p, [NoArg EXCEPT !.op = "check_status", !.maxAgeHours = maxAgeHours,
                           !.autoCleanStale = autoCleanStale,
                           !.newAgentId = newAgentId],
          TRUE, seq)

handleCheckStatus(p, seq) ==
  CheckStatusWith(p, seq, MaxAges(seq), BOOLEAN, NewAgentIds(seq))

\* the listener receives POST /mcp/check_status with the parameters the
\* delegating handler sends
listenerCheckStatus(p) ==
  \E maxAgeHours \in MaxAges(TRUE), autoCleanStale \in BOOLEAN,
     newAgentId \in NewAgentIds(TRUE) :
    Begin(p, [NoArg EXCEPT !.op = "listener_check_status",
                           !.maxAgeHours = maxAgeHours,
                           !.autoCleanStale = autoCleanStale,
                           !.newAgentId = newAgentId],
          TRUE, TRUE)

\* a status query that reports staleness and cleans nothing up
handleCheckStatusReport(p) ==
  CheckStatusWith(p, TRUE, 0..MaxHour, {FALSE}, {Undefined})

(***************************************************************************)
(* What each tool does with the WorkStatus s it obtained: the next step,   *)
(* or its response.                                                        *)
(***************************************************************************)
Goto(label) == [pc |-> label, res |-> NoRes]

Respond(r) == [pc |-> "done", res |-> r]

AfterStatusCreateBeep(a, s) ==
  IF s.status = "work_in_progress"
  THEN Respond([Failure("USE_END_WORK") EXCEPT !.holder = s.agentId])
  ELSE Goto("cbWrite")

\* a claim that takes only a directory marked released
AfterStatusUpdateBoopStrict(a, s) ==
  IF s.status = "work_in_progress" /\ s.agentId # a.agentId
  THEN Respond([Failure("WORK_ALREADY_IN_PROGRESS") EXCEPT !.holder = s.agentId])
  ELSE IF s.status = "work_allowed" /\ s.beepExists
  THEN Goto("ubUnlink")
  ELSE IF s.status = "work_in_progress"
  THEN Goto("ubWrite")
  ELSE Respond(Failure("WORK_NOT_ALLOWED"))

\* a claim that writes the boop file and leaves the beep file where it is
AfterStatusUpdateBoopKeepingBeep(a, s) ==
  IF s.status = "work_in_progress" /\ s.agentId # a.agentId
  THEN Respond([Failure("WORK_ALREADY_IN_PROGRESS") EXCEPT !.holder = s.agentId])
  ELSE Goto("ubWrite")

AfterStatusUpdateBoop(a, s) ==
  IF s.status = "work_in_progress" /\ s.agentId # a.agentId
  THEN Respond([Failure("WORK_ALREADY_IN_PROGRESS") EXCEPT !.holder = s.agentId])
  ELSE IF s.status = "work_allowed" /\ s.beepExists
  THEN Goto("ubUnlink")
  ELSE Goto("ubWrite")

AfterStatusEndWork(a, s) ==
  IF s.status # "work_in_progress"
  THEN Respond(Failure("WORK_NOT_CLAIMED"))
  ELSE IF s.agentId # Undefined /\ s.agentId # a.agentId
  THEN Respond([Failure("AGENT_MISMATCH") EXCEPT !.holder = s.agentId])
  ELSE Goto("ewRemove")

\* a cleanup that leaves the validation of newAgentId to the claim after it
AfterStatusCheckStatusCleanFirst(a, s, current, cfg) ==
  IF a.phase = "after"
  THEN IF a.newAgentId # Undefined /\ ~validateAgentIdWithConfig(a.newAgentId, cfg)
       THEN Respond(Failure("INVALID_AGENT_ID"))
       ELSE Respond([Success("STATUS") EXCEPT !.status = s.status,
                       !.holder = s.agentId, !.cleanedUp = TRUE,
                       !.claimed = a.claimed])
  ELSE IF /\ s.status = "work_in_progress"
          /\ s.boopTimestamp # NoTime
          /\ isFileStale(s.boopTimestamp, current, a.maxAgeHours)
  THEN IF a.autoCleanStale
       THEN Goto("csRemove")
       ELSE Respond([Success("STATUS") EXCEPT !.status = s.status,
                       !.holder = s.agentId, !.stale = TRUE])
  ELSE Respond([Success("STATUS") EXCEPT !.status = s.status, !.holder = s.agentId])

\* a status query that removes a stale hold record whether asked to or not
AfterStatusCheckStatusAlwaysClean(a, s, current, cfg) ==
  IF a.phase = "after"
  THEN Respond([Success("STATUS") EXCEPT !.status = s.status, !.holder = s.agentId,
                  !.cleanedUp = TRUE, !.claimed = a.claimed])
  ELSE IF /\ s.status = "work_in_progress"
          /\ s.boopTimestamp # NoTime
          /\ isFileStale(s.boopTimestamp, current, a.maxAgeHours)
  THEN IF a.newAgentId # Undefined /\ ~validateAgentIdWithConfig(a.newAgentId, cfg)
       THEN Respond(Failure("INVALID_AGENT_ID"))
       ELSE Goto("csRemove")
  ELSE Respond([Success("STATUS") EXCEPT !.status = s.status, !.holder = s.agentId])

AfterStatusCheckStatus(a, s, current, cfg) ==
  IF a.phase = "after"
  THEN Respond([Success("STATUS") EXCEPT !.status = s.status, !.holder = s.agentId,
                  !.cleanedUp = TRUE, !.claimed = a.claimed])
  ELSE IF /\ s.status = "work_in_progress"
          /\ s.boopTimestamp # NoTime
          /\ isFileStale(s.boopTimestamp, current, a.maxAgeHours)
  THEN IF a.autoCleanStale
       THEN IF a.newAgentId # Undefined /\ ~validateAgentIdWithConfig(a.newAgentId, cfg)
            THEN Respond(Failure("INVALID_AGENT_ID"))
            ELSE Goto("csRemove")
       ELSE Respond([Success("STATUS") EXCEPT !.status = s.status,
                       !.holder = s.agentId, !.stale = TRUE])
  ELSE Respond([Success("STATUS") EXCEPT !.status = s.status, !.holder = s.agentId])

\* the answer of the listener with the HTTP status httpStatus
Answer(httpStatus) ==
  [NoRes EXCEPT !.ok = ResponseOk(httpStatus),
                !.code = IF ResponseOk(httpStatus) THEN "STATUS"
                         ELSE "HTTP_ERROR"]

\* POST /mcp/check_status of the listener: 400 for a newAgentId that is not
\* valid, the cleanup, or 200 with the status
AfterStatusListenerCheckStatus(a, s, current, cfg) ==
  IF a.phase = "after"
  THEN Respond([Answer(200) EXCEPT !.status = s.status, !.holder = s.agentId,
                  !.cleanedUp = TRUE, !.claimed = a.claimed])
  ELSE IF /\ s.status = "work_in_progress"
          /\ s.boopTimestamp # NoTime
          /\ isFileStale(s.boopTimestamp, current, a.maxAgeHours)
  THEN IF a.autoCleanStale
       THEN IF a.newAgentId # Undefined /\ ~validateAgentIdWithConfig(a.newAgentId, cfg)
            THEN Respond(Answer(400))
            ELSE Goto("csRemove")
       ELSE Respond([Answer(200) EXCEPT !.status = s.status,
                       !.holder = s.agentId, !.stale = TRUE])
  ELSE Respond([Answer(200) EXCEPT !.status = s.status, !.holder = s.agentId])

AfterStatus(a, s, current, cfg) ==
  CASE a.op = "create_beep" -> AfterStatusCreateBeep(a, s)
    [] a.op = "update_boop" -> AfterStatusUpdateBoop(a, s)
    [] a.op = "end_work" -> AfterStatusEndWork(a, s)
    [] a.op = "listener_check_status" ->
         AfterStatusListenerCheckStatus(a, s, current, cfg)
    [] OTHER -> AfterStatusCheckStatus(a, s, current, cfg)

(***************************************************************************)
(* getWorkStatus: three filesystem calls, then the state.                  *)
(***************************************************************************)
\* the call of p has its WorkStatus s (no state yet): it goes on by it
Conclude(p, s) ==
  LET full == [s EXCEPT !.status = WorkStateOf(s.beepExists, s.boopExists)]
      next == AfterStatus(arg[p], full, now, config)
  IN /\ st' = [st EXCEPT ![p] = full]
     /\ pc' = [pc EXCEPT ![p] = next.pc]
     /\ res' = [res EXCEPT ![p] = next.res]

checkBeepExists(p) ==
  /\ pc[p] = "gsBeep"
  /\ st' = [st EXCEPT ![p] = [NoStatus EXCEPT !.beepExists = beep.exists]]
  /\ pc' = [pc EXCEPT ![p] = "gsBoop"]
  /\ UNCHANGED <<beep, boop, now, config, arg, res, eff, faulted, pre, prev, clientVars, restVars>>

checkBoopExists(p) ==
  /\ pc[p] = "gsBoop"
  /\ IF boop.exists
     THEN /\ st' = [st EXCEPT ![p].boopExists = TRUE]
          /\ pc' = [pc EXCEPT ![p] = "gsMeta"]
          /\ UNCHANGED res
     ELSE Conclude(p, st[p])
  /\ UNCHANGED <<beep, boop, now, config, arg, eff, faulted, pre, prev, clientVars, restVars>>

\* getFileMetadata of the boop file, and parseBoopContent of what it read:
\* nothing when the file is gone by now, or has no content
getFileMetadata(p) ==
  /\ pc[p] = "gsMeta"
  /\ IF boop.exists /\ ~boop.blank
     THEN Conclude(p, [st[p] EXCEPT !.agentId = boop.agentId,
                                    !.boopTimestamp = boop.mtime])
     ELSE Conclude(p, st[p])
  /\ UNCHANGED <<beep, boop, now, config, arg, eff, faulted, pre, prev, clientVars, restVars>>

(***************************************************************************)
(* create_beep                                                             *)
(***************************************************************************)
\* createBeepFile(directory, message, undefined, config)
createBeepFile(p) ==
  /\ pc[p] = "cbWrite"
  /\ beep' = BeepFileContent(now, Undefined)
  /\ eff' = [eff EXCEPT ![p] = @ \cup {"wroteBeep"}]
  /\ res' = [res EXCEPT ![p] = Success("BEEP_CREATED")]
  /\ pc' = [pc EXCEPT ![p] = "done"]
  /\ UNCHANGED <<boop, now, config, arg, st, faulted, pre, prev, clientVars, restVars>>

(***************************************************************************)
(* update_boop                                                             *)
(***************************************************************************)
\* a removal of the beep file that passes over a file that is not there
unlinkBeepIgnoringAbsent(p) ==
  /\ pc[p] = "ubUnlink"
  /\ beep' = NoFile
  /\ eff' = [eff EXCEPT ![p] = IF beep.exists THEN @ \cup {"removedBeep"} ELSE @]
  /\ pc' = [pc EXCEPT ![p] = "ubWrite"]
  /\ UNCHANGED <<boop, now, config, arg, st, res, faulted, pre, prev>>

\* fs.unlink of the beep file: an error when the file is not there
unlinkBeepStep(p) ==
  /\ pc[p] = "ubUnlink"
  /\ IF beep.exists
     THEN /\ beep' = NoFile
          /\ eff' = [eff EXCEPT ![p] = @ \cup {"removedBeep"}]
          /\ pc' = [pc EXCEPT ![p] = "ubWrite"]
          /\ UNCHANGED res
     ELSE /\ res' = [res EXCEPT ![p] = Failure("BEEP_REMOVE_FAILED")]
          /\ pc' = [pc EXCEPT ![p] = "done"]
          /\ UNCHANGED <<beep, eff>>
  /\ UNCHANGED <<boop, now, config, arg, st, faulted, pre, prev>>

unlinkBeep(p) ==
  /\ unlinkBeepStep(p)
  /\ UNCHANGED <<clientVars, restVars>>

\* createBoopFile(directory, agentId, workDescription, config)
createBoopFileStep(p) ==
  /\ pc[p] = "ubWrite"
  /\ boop' = BoopFileContent(now, arg[p].agentId, "Work in progress")
  /\ eff' = [eff EXCEPT ![p] = @ \cup {"wroteBoop"}]
  /\ res' = [res EXCEPT ![p] =
       Success(IF st[p].status = "work_in_progress" THEN "BOOP_UPDATED"
               ELSE "BOOP_CREATED")]
  /\ pc' = [pc EXCEPT ![p] = "done"]
  /\ UNCHANGED <<beep, now, config, arg, st, faulted, pre, prev>>

createBoopFile(p) ==
  /\ createBoopFileStep(p)
  /\ UNCHANGED <<clientVars, restVars>>

(***************************************************************************)
(* end_work: endWorkAtomically after its checks                            *)
(***************************************************************************)
\* removeBoopFile: no error when the file is not there
endWorkRemoveBoopStep(p) ==
  /\ pc[p] = "ewRemove"
  /\ boop' = NoFile
  /\ eff' = [eff EXCEPT ![p] = IF boop.exists THEN @ \cup {"removedBoop"} ELSE @]
  /\ pc' = [pc EXCEPT ![p] = "ewBeep"]
  /\ UNCHANGED <<beep, now, config, arg, st, res, faulted, pre, prev>>

endWorkRemoveBoop(p) ==
  /\ endWorkRemoveBoopStep(p)
  /\ UNCHANGED <<clientVars, restVars>>

\* createBeepFile(directory, message, expectedAgentId, config)
endWorkCreateBeepStep(p) ==
  /\ pc[p] = "ewBeep"
  /\ beep' = BeepFileContent(now, arg[p].agentId)
  /\ eff' = [eff EXCEPT ![p] = @ \cup {"wroteBeep"}]
  /\ res' = [res EXCEPT ![p] = Success("WORK_COMPLETED")]
  /\ pc' = [pc EXCEPT ![p] = "done"]
  /\ UNCHANGED <<boop, now, config, arg, st, faulted, pre, prev>>

endWorkCreateBeep(p) ==
  /\ endWorkCreateBeepStep(p)
  /\ UNCHANGED <<clientVars, restVars>>

\* the codes of the CoordinationError a failed write is thrown as
WriteErrors == {"PERMISSION_DENIED", "FILE_SYSTEM_ERROR"}

\* no error
NoError == "none"

\* an endWorkAtomically that throws the error caught last
thrownLast(original, rewrite) ==
  IF rewrite = NoError THEN original ELSE rewrite

\* throw error, at the end of the catch block of endWorkAtomically: the
\* error of createBeepFile, whatever became of the restoration
thrown(original, rewrite) == original

\* createBeepFile throws an error of codes (the write fails): the catch
\* block is entered with it
createBeepFailsWith(p, codes) ==
  /\ pc[p] = "ewBeep"
  /\ ~faulted
  /\ faulted' = TRUE
  /\ \E code \in codes : res' = [res EXCEPT ![p] = Failure(code)]
  /\ pc' = [pc EXCEPT ![p] = "ewRestore"]
  /\ UNCHANGED <<beep, boop, now, config, arg, st, eff, pre, prev, clientVars, restVars>>

endWorkCreateBeepFails(p) == createBeepFailsWith(p, {"FILE_SYSTEM_ERROR"})

\* the catch block: createBoopFile(..., 'Work restoration after failure'),
\* then the error is thrown on
endWorkRestoreBoop(p) ==
  /\ pc[p] = "ewRestore"
  /\ boop' = BoopFileContent(now, arg[p].agentId, "Work restoration after failure")
  /\ eff' = [eff EXCEPT ![p] = @ \cup {"wroteBoop"}]
  /\ res' = [res EXCEPT ![p] = Failure(thrown(res[p].code, NoError))]
  /\ pc' = [pc EXCEPT ![p] = "done"]
  /\ UNCHANGED <<beep, now, config, arg, st, faulted, pre, prev, clientVars, restVars>>

\* the catch block when createBoopFile throws as well: its error is
\* dropped (catch {}), then the first error is thrown on
endWorkRestoreBoopFails(p) ==
  /\ pc[p] = "ewRestore"
  /\ \E code \in WriteErrors :
       res' = [res EXCEPT ![p] = Failure(thrown(res[p].code, code))]
  /\ pc' = [pc EXCEPT ![p] = "done"]
  /\ UNCHANGED <<beep, boop, now, config, arg, st, eff, faulted, pre, prev, clientVars, restVars>>

(***************************************************************************)
(* check_status with autoCleanStale: cleanupStaleBoopAndClaim, then the    *)
(* status again                                                            *)
(***************************************************************************)
\* removeBoopFile, and the test that decides on the claim
cleanupRemoveBoop(p) ==
  /\ pc[p] = "csRemove"
  /\ boop' = NoFile
  /\ eff' = [eff EXCEPT ![p] = IF boop.exists THEN @ \cup {"removedBoop"} ELSE @]
  /\ IF arg[p].newAgentId # Undefined /\ validateAgentId(arg[p].newAgentId)
     THEN /\ pc' = [pc EXCEPT ![p] = "csClaim"]
          /\ UNCHANGED arg
     ELSE /\ pc' = [pc EXCEPT ![p] = "gsBeep"]
          /\ arg' = [arg EXCEPT ![p].phase = "after"]
  /\ UNCHANGED <<beep, now, config, st, res, faulted, pre, prev, clientVars, restVars>>

\* createBoopFile(directory, newAgentId, 'Claimed after stale cleanup')
cleanupClaim(p) ==
  /\ pc[p] = "csClaim"
  /\ boop' = BoopFileContent(now, arg[p].newAgentId, "Claimed after stale cleanup")
  /\ eff' = [eff EXCEPT ![p] = @ \cup {"wroteBoop"}]
  /\ arg' = [arg EXCEPT ![p].phase = "after", ![p].claimed = TRUE]
  /\ pc' = [pc EXCEPT ![p] = "gsBeep"]
  /\ UNCHANGED <<beep, now, config, st, res, faulted, pre, prev, clientVars, restVars>>

(***************************************************************************)
(* The response reaches the caller; the clock.                             *)
(***************************************************************************)
ReturnCall(p, seq) ==
  /\ pc[p] = "done"
  /\ pc' = [pc EXCEPT ![p] = "idle"]
  /\ arg' = [arg EXCEPT ![p] = NoArg]
  /\ st' = [st EXCEPT ![p] = NoStatus]
  /\ res' = [res EXCEPT ![p] = NoRes]
  /\ eff' = [eff EXCEPT ![p] = {}]
  /\ prev' = IF seq
             THEN [op |-> arg[p].op,
                   agentId |-> arg[p].agentId,
                   ok |-> res[p].ok]
             ELSE prev
  /\ UNCHANGED <<beep, boop, now, config, faulted, pre>>

Return(p, seq) ==
  /\ ReturnCall(p, seq)
  /\ UNCHANGED <<clientVars, restVars>>

\* an hour passes, up to the hour max
TickTo(max) ==
  /\ now < max
  /\ now' = now + 1
  /\ UNCHANGED <<beep, boop, config, pc, arg, st, res, eff, faulted, pre, prev, clientVars, restVars>>

Tick == TickTo(MaxTime)

TickOverlap == TickTo(MaxOverlapTime)

\* a filesystem step of the call of p
Step(p) ==
  \/ checkBeepExists(p)
  \/ checkBoopExists(p)
  \/ getFileMetadata(p)
  \/ createBeepFile(p)
  \/ unlinkBeep(p)
  \/ createBoopFile(p)
  \/ endWorkRemoveBoop(p)
  \/ endWorkCreateBeep(p)
  \/ endWorkCreateBeepFails(p)
  \/ endWorkRestoreBoop(p)
  \/ cleanupRemoveBoop(p)
  \/ cleanupClaim(p)

Next ==
  \/ \E p \in Procs :
       \/ handleCreateBeep(p, FALSE)
       \/ handleUpdateBoop(p, FALSE)
       \/ handleEndWork(p, FALSE)
       \/ handleCheckStatus(p, FALSE)
       \/ Step(p)
       \/ Return(p, FALSE)
  \/ TickOverlap

NextSeq ==
  \/ \E p \in Procs :
       \/ AllIdle /\ handleCreateBeep(p, TRUE)
       \/ AllIdle /\ handleUpdateBoop(p, TRUE)
       \/ AllIdle /\ handleEndWork(p, TRUE)
       \/ AllIdle /\ handleCheckStatus(p, TRUE)
       \/ Step(p)
       \/ Return(p, TRUE)
  \/ Tick

Spec == Init /\ [][Next]_vars

SeqSpec == InitSeq /\ [][NextSeq]_vars

\* one call at a time, under an access policy that rejects the directory
\* or admits it
InitAccess ==
  /\ beep \in {NoFile, BeepFileContent(0, Undefined)}
  /\ boop \in {NoFile, BoopFileContent(0, AgentA, "Work in progress")}
  /\ now = 0
  /\ config \in AccessConfigs
  /\ pc = [p \in Procs |-> "idle"]
  /\ arg = [p \in Procs |-> NoArg]
  /\ st = [p \in Procs |-> NoStatus]
  /\ res = [p \in Procs |-> NoRes]
  /\ eff = [p \in Procs |-> {}]
  /\ faulted = FALSE
  /\ pre = Markers
  /\ prev = NoPrev
  /\ InitClient({DefaultListenerConfig})
  /\ InitRest

AccessSpec == InitAccess /\ [][NextSeq]_vars

\* a Held directory whose hold record carries any timestamp, read at any
\* time: the record may be older than the clock, or ahead of it
InitAge ==
  /\ beep = NoFile
  /\ boop \in {BoopFileContent(t, AgentA, "Work in progress") : t \in 0..MaxHour}
  /\ now \in 0..MaxHour
  /\ config = DefaultConfig
  /\ pc = [p \in Procs |-> "idle"]
  /\ arg = [p \in Procs |-> NoArg]
  /\ st = [p \in Procs |-> NoStatus]
  /\ res = [p \in Procs |-> NoRes]
  /\ eff = [p \in Procs |-> {}]
  /\ faulted = FALSE
  /\ pre = Markers
  /\ prev = NoPrev
  /\ InitClient({DefaultListenerConfig})
  /\ InitRest

NextAge ==
  \E p \in Procs :
    \/ AllIdle /\ handleCheckStatusReport(p)
    \/ checkBeepExists(p)
    \/ checkBoopExists(p)
    \/ getFileMetadata(p)
    \/ Return(p, TRUE)

AgeSpec == InitAge /\ [][NextAge]_vars

\* status checks one at a time, by the tool and by the listener, on a
\* directory found in any marker state
NextStatus ==
  \/ \E p \in Procs :
       \/ AllIdle /\ handleCheckStatus(p, TRUE)
       \/ AllIdle /\ listenerCheckStatus(p)
       \/ checkBeepExists(p)
       \/ checkBoopExists(p)
       \/ getFileMetadata(p)
       \/ cleanupRemoveBoop(p)
       \/ cleanupClaim(p)
       \/ Return(p, TRUE)
  \/ Tick

StatusSpec == InitSeq /\ [][NextStatus]_vars

\* releases one at a time, on a directory found in any marker state, with
\* the write of the beep file and the restoration failing or not
NextRelease ==
  \/ \E p \in Procs :
       \/ AllIdle /\ handleEndWork(p, TRUE)
       \/ checkBeepExists(p)
       \/ checkBoopExists(p)
       \/ getFileMetadata(p)
       \/ endWorkRemoveBoop(p)
       \/ endWorkCreateBeep(p)
       \/ createBeepFailsWith(p, WriteErrors)
       \/ endWorkRestoreBoop(p)
       \/ endWorkRestoreBoopFails(p)
       \/ Return(p, TRUE)
  \/ Tick

ReleaseSpec == InitSeq /\ [][NextRelease]_vars

\* claims that overlap, on a directory found released; no other tool is
\* called
InitRace ==
  /\ beep = BeepFileContent(0, Undefined)
  /\ boop = NoFile
  /\ now = 0
  /\ config = DefaultConfig
  /\ pc = [p \in Procs |-> "idle"]
  /\ arg = [p \in Procs |-> NoArg]
  /\ st = [p \in Procs |-> NoStatus]
  /\ res = [p \in Procs |-> NoRes]
  /\ eff = [p \in Procs |-> {}]
  /\ faulted = FALSE
  /\ pre = Markers
  /\ prev = NoPrev
  /\ InitClient({DefaultListenerConfig})
  /\ InitRest

RaceNext ==
  \E p \in Procs :
    \/ handleUpdateBoop(p, FALSE)
    \/ checkBeepExists(p)
    \/ checkBoopExists(p)
    \/ getFileMetadata(p)
    \/ unlinkBeep(p)
    \/ createBoopFile(p)
    \/ Return(p, FALSE)

RaceSpec == InitRace /\ [][RaceNext]_vars

(***************************************************************************)
(* A status query while claims and releases run on the directory.  The     *)
(* steps that change a marker add the pair they leave to what the queries  *)
(* in progress could have seen.                                            *)
(***************************************************************************)
\* which of the two markers are there
Pair(b, h) == <<b.exists, h.exists>>

\* seen, after a step that leaves the markers b and h
Witnessed(b, h) ==
  [q \in Procs |->
     IF arg[q].op = "check_status" THEN seen[q] \cup {Pair(b, h)} ELSE seen[q]]

\* the variables of the parts that have not started
idleVars == <<clientVars, inboxVars, listenerVars, notifyVars, threadVars>>

\* check_status is called, to report
queryBegins(p) ==
  /\ BeginCall(p, [NoArg EXCEPT !.op = "check_status"], TRUE, FALSE)
  /\ seen' = [seen EXCEPT ![p] = {Pair(beep, boop)}]
  /\ UNCHANGED idleVars

\* the query returns its report
queryReturns(p) ==
  /\ arg[p].op = "check_status"
  /\ ReturnCall(p, FALSE)
  /\ seen' = [seen EXCEPT ![p] = {}]
  /\ UNCHANGED idleVars

\* a step of the claim or release of p that changes a marker
markerStep(p) ==
  /\ \/ unlinkBeepStep(p)
     \/ createBoopFileStep(p)
     \/ endWorkRemoveBoopStep(p)
     \/ endWorkCreateBeepStep(p)
  /\ seen' = Witnessed(beep', boop')
  /\ UNCHANGED idleVars

\* a directory in any marker state, no call in progress
InitQuerySpec ==
  /\ beep \in {NoFile, BeepFileContent(0, Undefined)}
  /\ boop \in {NoFile, BoopFileContent(0, AgentA, "Work in progress")}
  /\ now = 0
  /\ config = DefaultConfig
  /\ pc = [p \in Procs |-> "idle"]
  /\ arg = [p \in Procs |-> NoArg]
  /\ st = [p \in Procs |-> NoStatus]
  /\ res = [p \in Procs |-> NoRes]
  /\ eff = [p \in Procs |-> {}]
  /\ faulted = FALSE
  /\ pre = Markers
  /\ prev = NoPrev
  /\ InitClient({DefaultListenerConfig})
  /\ InitRest

\* p1 queries while p2 claims and releases
QueryNext ==
  \/ queryBegins("p1")
  \/ queryReturns("p1")
  \/ handleUpdateBoop("p2", FALSE)
  \/ handleEndWork("p2", FALSE)
  \/ arg["p2"].op # "check_status" /\ Return("p2", FALSE)
  \/ \E p \in Procs :
       \/ checkBeepExists(p)
       \/ checkBoopExists(p)
       \/ getFileMetadata(p)
       \/ markerStep(p)

QuerySpec == InitQuerySpec /\ [][QueryNext]_vars

(***************************************************************************)
(* HttpListenerClient.post.  JavaScript runs one callback at a time: each  *)
(* step is the code that runs between two awaits.                          *)
(***************************************************************************)
\* delegation is disabled, or has no base URL
NotConfigured == ~lcfg.listenerEnabled \/ lcfg.listenerBaseUrl = ""

\* the call c ends as the record rec says; the finally block releases its
\* slot, and the call the release resolved goes on from its acquire
Settle(c, rec) ==
  LET sem == release(counter, queue) IN
  /\ counter' = sem.counter
  /\ queue' = sem.queue
  /\ cpc' = [d \in Calls |-> IF d = c THEN "done"
                              ELSE IF d \in sem.resolved THEN "acquired"
                              ELSE cpc[d]]
  /\ call' = [call EXCEPT ![c] = rec]

\* a post that takes its slot before it looks at the configuration
PostAcquiringFirst(c, payloads) ==
  /\ cpc[c] = "idle"
  /\ \E payload \in payloads :
       LET sem == attempt(counter, queue, c) IN
       /\ counter' = sem.counter
       /\ queue' = sem.queue
       /\ cpc' = [cpc EXCEPT ![c] = IF c \in sem.resolved THEN "acquired"
                                    ELSE "waiting"]
       /\ call' = [call EXCEPT ![c] =
            [NoCall EXCEPT !.payload = payload,
                           !.waited = c \notin sem.resolved,
                           !.behind = Len(queue)]]
  /\ UNCHANGED <<lcfg, dirVars, restVars>>

\* post is called with a body of payloads: the unavailable result at once,
\* or sem.acquire()
PostWith(c, payloads) ==
  /\ cpc[c] = "idle"
  /\ \E payload \in payloads :
       IF NotConfigured
       THEN /\ cpc' = [cpc EXCEPT ![c] = "done"]
            /\ call' = [call EXCEPT ![c] =
                 [NoCall EXCEPT !.payload = payload, !.ret = Unavailable]]
            /\ UNCHANGED <<counter, queue>>
       ELSE LET sem == attempt(counter, queue, c) IN
            /\ counter' = sem.counter
            /\ queue' = sem.queue
            /\ cpc' = [cpc EXCEPT ![c] = IF c \in sem.resolved THEN "acquired"
                                         ELSE "waiting"]
            /\ call' = [call EXCEPT ![c] =
                 [NoCall EXCEPT !.payload = payload,
                                !.waited = c \notin sem.resolved,
                                !.behind = Len(queue)]]
  /\ UNCHANGED <<lcfg, dirVars, restVars>>

post(c) == PostWith(c, ClientPayloads)

\* after the acquire: the timer is set and the request is sent; a body
\* that cannot be serialized throws into the catch block
startRequest(c) ==
  /\ cpc[c] = "acquired"
  /\ LET armed == [call[c] EXCEPT
                     !.timeoutMs = buildTimeoutMs(call[c].payload, lcfg),
                     !.timer = "armed"]
     IN IF call[c].payload.serializable
        THEN /\ call' = [call EXCEPT ![c] = [armed EXCEPT !.sent = TRUE]]
             /\ cpc' = [cpc EXCEPT ![c] = "fetching"]
             /\ UNCHANGED <<counter, queue>>
        ELSE Settle(c, [armed EXCEPT !.outcome = "serialization",
                                     !.ret = catchResult(FALSE)])
  /\ UNCHANGED <<lcfg, dirVars, restVars>>

\* fetch resolves with an answer of the listener, its status of statuses
\* and its body of bodies: clearTimeout
fetchRespondsWith(c, statuses, bodies) ==
  /\ cpc[c] = "fetching"
  /\ \E status \in statuses, body \in bodies :
       call' = [call EXCEPT ![c].status = status, ![c].body = body,
                            ![c].outcome = "response", ![c].timer = "cleared"]
  /\ cpc' = [cpc EXCEPT ![c] = "reading"]
  /\ UNCHANGED <<lcfg, counter, queue, dirVars, restVars>>

fetchResponds(c) == fetchRespondsWith(c, RemoteStatuses, RemoteBodies)

\* the answers told apart by nothing but success and failure
fetchRespondsPlainly(c) == fetchRespondsWith(c, {200, 404}, {NotJson})

\* res.json() is through (a body that is not JSON is ignored): the result
readBody(c) ==
  /\ cpc[c] = "reading"
  /\ Settle(c, [call[c] EXCEPT !.ret = responseResult(call[c].status, call[c].body)])
  /\ UNCHANGED <<lcfg, dirVars, restVars>>

\* fetch rejects: the listener cannot be reached, the connection breaks
fetchFails(c) ==
  /\ cpc[c] = "fetching"
  /\ Settle(c, [call[c] EXCEPT !.outcome = "network", !.ret = catchResult(FALSE)])
  /\ UNCHANGED <<lcfg, dirVars, restVars>>

\* a timeout that answers the caller and keeps the slot
timerFiresKeepingSlot(c) ==
  /\ cpc[c] = "fetching"
  /\ call[c].timer = "armed"
  /\ cpc' = [cpc EXCEPT ![c] = "done"]
  /\ call' = [call EXCEPT ![c].timer = "fired", ![c].outcome = "abort",
                          ![c].ret = catchResult(TRUE)]
  /\ UNCHANGED <<lcfg, counter, queue, dirVars, restVars>>

\* the timer fires with no answer yet: controller.abort(), fetch rejects
\* with an AbortError
timerFires(c) ==
  /\ cpc[c] = "fetching"
  /\ call[c].timer = "armed"
  /\ Settle(c, [call[c] EXCEPT !.timer = "fired", !.outcome = "abort",
                               !.ret = catchResult(TRUE)])
  /\ UNCHANGED <<lcfg, dirVars, restVars>>

\* the caller has the result
returnResult(c) ==
  /\ cpc[c] = "done"
  /\ cpc' = [cpc EXCEPT ![c] = "idle"]
  /\ call' = [call EXCEPT ![c] = NoCall]
  /\ UNCHANGED <<lcfg, counter, queue, dirVars, restVars>>

InitClientSpec == InitDirectory /\ InitClient(ListenerConfigs) /\ InitRest

ClientNext ==
  \E c \in Calls :
    \/ post(c)
    \/ startRequest(c)
    \/ fetchResponds(c)
    \/ readBody(c)
    \/ fetchFails(c)
    \/ timerFires(c)
    \/ returnResult(c)

ClientSpec == InitClientSpec /\ [][ClientNext]_vars

FairClientNext ==
  \E c \in Calls :
    \/ post(c)
    \/ startRequest(c)
    \/ fetchRespondsPlainly(c)
    \/ readBody(c)
    \/ fetchFails(c)
    \/ timerFires(c)
    \/ returnResult(c)

\* the continuation of an acquire runs; every request sent is answered,
\* fails or reaches its timeout; every body sent is read to its end
ClientFairness ==
  \A c \in Calls :
    /\ WF_vars(startRequest(c))
    /\ WF_vars(fetchRespondsPlainly(c) \/ fetchFails(c) \/ timerFires(c))
    /\ WF_vars(readBody(c))

FairClientSpec == InitClientSpec /\ [][FairClientNext]_vars /\ ClientFairness

\* one post call of a body of any length, to a listener that never answers
InitTimeout == InitDirectory /\ InitClient(TimeoutConfigs) /\ InitRest

postAnyBody(c) == PostWith(c, TimeoutPayloads)

TimeoutNext ==
  \E c \in {"c1"} :
    \/ postAnyBody(c)
    \/ startRequest(c)
    \/ timerFires(c)
    \/ returnResult(c)

TimeoutSpec == InitTimeout /\ [][TimeoutNext]_vars

(***************************************************************************)
(* The handlers that delegate: with listenerEnabled, handleCheckStatus,    *)
(* handleUpdateUser and handleInitiateConversation post their parameters   *)
(* to the listener and answer with what comes back.                        *)
(***************************************************************************)
\* the handler posts its parameters
delegate(c) ==
  /\ lcfg.listenerEnabled
  /\ post(c)

\* post has returned: the handler makes its ToolResponse of the result
toolResponds(c) ==
  /\ cpc[c] = "done"
  /\ cpc' = [cpc EXCEPT ![c] = "responded"]
  /\ call' = [call EXCEPT ![c].response = delegatedResponse(call[c].ret)]
  /\ UNCHANGED <<lcfg, counter, queue, dirVars, restVars>>

\* the caller of the tool has the ToolResponse
toolReturns(c) ==
  /\ cpc[c] = "responded"
  /\ cpc' = [cpc EXCEPT ![c] = "idle"]
  /\ call' = [call EXCEPT ![c] = NoCall]
  /\ UNCHANGED <<lcfg, counter, queue, dirVars, restVars>>

\* delegation is enabled, with or without a base URL
InitDelegation ==
  /\ InitDirectory
  /\ InitClient({cfg \in ListenerConfigs : cfg.listenerEnabled})
  /\ InitRest

DelegationNext ==
  \E c \in Calls :
    \/ delegate(c)
    \/ startRequest(c)
    \/ fetchRespondsPlainly(c)
    \/ readBody(c)
    \/ fetchFails(c)
    \/ timerFires(c)
    \/ toolResponds(c)
    \/ toolReturns(c)

DelegationSpec == InitDelegation /\ [][DelegationNext]_vars

(***************************************************************************)
(* The inbox and handleInitiateConversation (local processing).  The       *)
(* platform listeners put the records they capture, the consumers ack      *)
(* them, and the conversation polls the inbox; each step of the            *)
(* conversation is the code between two awaits.                            *)
(***************************************************************************)
\* a platform listener captures a message, its record one of messages:
\* InboxStore.put under a fresh id
captureWith(id, messages) ==
  /\ id \in CapturedIds
  /\ id \notin inboxDir \cup processedDir
  /\ \E msg \in messages :
       content' = [content EXCEPT ![id] = msg]
  /\ inboxDir' = inboxDir \cup {id}
  /\ UNCHANGED <<processedDir, conv, clock, nonInboxVars>>

\* InboxStore.ack of a record that is in the inbox
ackFile(id) ==
  /\ id \in inboxDir
  /\ LET moved == ack(inboxDir, processedDir, id) IN
     /\ inboxDir' = moved.inbox
     /\ processedDir' = moved.processed
  /\ UNCHANGED <<content, conv, clock>>

\* a consumer acknowledges the record id
ackRecord(id) ==
  /\ ackFile(id)
  /\ UNCHANGED nonInboxVars

\* a handler in which the failure of the thread reaches the outer catch
sendMessageNeedingThread ==
  /\ conv.pc = "idle"
  /\ \E platform \in Platforms, threadCreated \in BOOLEAN :
       /\ platform = "slack" => ~threadCreated
       /\ conv' = [NoConv EXCEPT
            !.pc = IF platform = "discord" /\ ~threadCreated
                   THEN "returned" ELSE "put",
            !.outcome = IF platform = "discord" /\ ~threadCreated
                        THEN [kind |-> "error", isError |-> TRUE,
                              id |-> "none"]
                        ELSE NoOutcome,
            !.platform = platform,
            !.channelId = "C1",
            !.messageId = IF platform = "slack" THEN "t1" ELSE "d1",
            !.threadId = IF threadCreated THEN "t1" ELSE NoThread,
            !.agentId = InitiatorId,
            !.createdAt = clock]
  /\ UNCHANGED <<inboxDir, processedDir, content, clock>>

\* the message is sent on the platform (on Discord a thread is created,
\* or is not), the record of the conversation is built: await inbox.put
sendMessage ==
  /\ conv.pc = "idle"
  /\ \E platform \in Platforms, threadCreated \in BOOLEAN :
       /\ platform = "slack" => ~threadCreated
       /\ conv' = [NoConv EXCEPT
            !.pc = "put",
            !.platform = platform,
            !.channelId = "C1",
            !.messageId = IF platform = "slack" THEN "t1" ELSE "d1",
            !.threadId = IF threadCreated THEN "t1" ELSE NoThread,
            !.agentId = InitiatorId,
            !.createdAt = clock]
  /\ UNCHANGED <<inboxDir, processedDir, content, clock>>

\* initiate_conversation is called
initiate ==
  /\ sendMessage
  /\ UNCHANGED nonInboxVars

\* the record the conversation puts
initiatingMessage(c) ==
  [platform |-> c.platform,
   authoredBy |-> c.agentId,
   context |-> [channelId |-> c.channelId,
                threadId |-> c.threadId,
                threadTs |-> IF c.platform = "slack" THEN c.messageId
                             ELSE NoThread],
   createdAt |-> c.createdAt]

\* inbox.put is through: const startTime = Date.now()
putDone ==
  /\ conv.pc = "put"
  /\ content' = [content EXCEPT ![InitiatingId] = initiatingMessage(conv)]
  /\ inboxDir' = inboxDir \cup {InitiatingId}
  /\ conv' = [conv EXCEPT !.pc = "loop", !.startTime = clock]
  /\ UNCHANGED <<processedDir, clock, nonInboxVars>>

\* inbox.put or inbox.list rejects (the directory cannot be written or
\* read): the inner catch answers that the message is sent but not stored
inboxFails ==
  /\ conv.pc \in {"put", "loop"}
  /\ conv' = [conv EXCEPT
       !.pc = "returned",
       !.outcome = [kind |-> "not stored", isError |-> FALSE, id |-> "none"]]
  /\ UNCHANGED <<inboxDir, processedDir, content, clock, nonInboxVars>>

\* the test of the while loop; within the deadline pollCount++ and
\* inbox.list(), past it the answer that no response was received
pollOrTimeout ==
  /\ conv.pc = "loop"
  /\ IF withinDeadline(clock, conv.startTime)
     THEN \E order \in Orders(list(inboxDir, processedDir)) :
            conv' = [conv EXCEPT !.pc = "scan",
                                 !.pollCount = @ + 1,
                                 !.listing = order,
                                 !.listed = inboxDir,
                                 !.ackedBefore = processedDir]
     ELSE conv' = [conv EXCEPT
            !.pc = "returned",
            !.outcome = [kind |-> "timeout", isError |-> FALSE,
                         id |-> InitiatingId]]
  /\ UNCHANGED <<inboxDir, processedDir, content, clock, nonInboxVars>>

\* inbox.read of the next id listed and the test of the record; after the
\* last one setTimeout(resolve, pollIntervalMs)
scan ==
  /\ conv.pc = "scan"
  /\ IF conv.listing = <<>>
     THEN conv' = [conv EXCEPT !.pc = "sleep"]
     ELSE LET id == Head(conv.listing)
              msg == read(inboxDir, content, id)
          IN IF qualifies(msg, conv)
             THEN conv' = [conv EXCEPT
                    !.pc = "returned",
                    !.outcome = [kind |-> "reply", isError |-> FALSE,
                                 id |-> id]]
             ELSE conv' = [conv EXCEPT !.listing = Tail(@)]
  /\ UNCHANGED <<inboxDir, processedDir, content, clock, nonInboxVars>>

\* the timer of the sleep fires, after one of delays
wakeAfter(delays) ==
  /\ conv.pc = "sleep"
  /\ \E d \in delays : clock' = clock + d
  /\ conv' = [conv EXCEPT !.pc = "loop"]
  /\ UNCHANGED <<inboxDir, processedDir, content, nonInboxVars>>

\* the timer fires when it is due
wake == wakeAfter({PollIntervalMs})

\* the event loop is busy and the timer fires late
wakeLate == wakeAfter({MaxWaitTimeMs \div 2})

InitPoll == InitDirectory /\ InitClient({DefaultListenerConfig}) /\ InitRest

\* any records captured and acknowledged while a conversation waits
PollNext ==
  \/ captureWith("m1", CapturedMessages)
  \/ captureWith("m2", ChannelReplies)
  \/ \E id \in MsgIds : ackRecord(id)
  \/ initiate
  \/ putDone
  \/ inboxFails
  \/ pollOrTimeout
  \/ scan
  \/ wakeLate

PollSpec == InitPoll /\ [][PollNext]_vars

\* the conversation polls every pollIntervalMs while records of its thread
\* are captured and acknowledged
TimerNext ==
  \/ captureWith("m1", ThreadMessages)
  \/ \E id \in MsgIds : ackRecord(id)
  \/ initiate
  \/ putDone
  \/ inboxFails
  \/ pollOrTimeout
  \/ scan
  \/ wake

\* the continuation of every await of the conversation runs: the inbox
\* calls resolve or reject, the timer fires
ConvStep == putDone \/ inboxFails \/ pollOrTimeout \/ scan \/ wake

TimerSpec == InitPoll /\ [][TimerNext]_vars /\ WF_vars(ConvStep)

(***************************************************************************)
(* initiate_conversation delegated: the handler posts its parameters, the  *)
(* route of the listener sends the message and polls its inbox, and the    *)
(* timer of the post runs on the same clock as the polling loop.           *)
(***************************************************************************)
\* the listener settings loadConfig gives, with the delegation switched on
DelegatingConfig ==
  [DefaultListenerConfig EXCEPT !.listenerEnabled = TRUE]

\* a short body, and one long enough for the timeout to reach its cap
RemotePayloads == {Payload(10), Payload(10000)}

\* the handler of initiate_conversation posts to the listener
delegateInitiate(c) ==
  /\ ToolOf(c) = "initiate_conversation"
  /\ lcfg.listenerEnabled
  /\ conv.pc = "idle"
  /\ PostWith(c, RemotePayloads)

\* the request reaches the route of the listener, which sends the message
listenerReceives(c) ==
  /\ ToolOf(c) = "initiate_conversation"
  /\ cpc[c] = "fetching"
  /\ initiate

\* setTimeout(() => controller.abort(), timeoutMs): when the timer is due
timerDeadline(c) == conv.createdAt + call[c].timeoutMs

\* the time the clock reaches before the next step of the listener
NextInstant == IF conv.pc = "sleep" THEN clock + PollIntervalMs ELSE clock

\* the timer of the post fires when it is due
timerFiresWhenDue(c) ==
  /\ conv.pc # "idle"
  /\ timerDeadline(c) <= NextInstant
  /\ timerFires(c)

\* the timer of the polling loop fires, no timer of a post due before it
wakeInTurn ==
  /\ \A c \in Calls :
        cpc[c] = "fetching" /\ call[c].timer = "armed"
          => timerDeadline(c) >= NextInstant
  /\ wake

\* res.writeHead(200); res.end(JSON.stringify({ text })) of the route
listenerAnswers(c) ==
  /\ ToolOf(c) = "initiate_conversation"
  /\ conv.pc = "returned"
  /\ fetchRespondsWith(c, {200}, {JsonBody("")})

InitRemote == InitDirectory /\ InitClient({DelegatingConfig}) /\ InitRest

RemoteNext ==
  \/ captureWith("m1", ChannelReplies)
  \/ putDone
  \/ pollOrTimeout
  \/ scan
  \/ wakeInTurn
  \/ \E c \in Calls :
       \/ delegateInitiate(c)
       \/ startRequest(c)
       \/ listenerReceives(c)
       \/ timerFiresWhenDue(c)
       \/ listenerAnswers(c)
       \/ readBody(c)
       \/ toolResponds(c)

RemoteSpec == InitRemote /\ [][RemoteNext]_vars

(***************************************************************************)
(* The record store under put, ack and updateThreadId.  The Discord         *)
(* listener puts the record of a mention, starts a thread and calls        *)
(* updateThreadId, which reads the file and then writes it, an await       *)
(* between the two; consumers ack the records meanwhile.                   *)
(***************************************************************************)
\* the id of the thread the listener has started
StartedThread == "t2"

\* updateThreadId is called for a record the listener has put:
\* await fs.readFile, which rejects when the file is not in the inbox
updateThreadIdReads(id) ==
  /\ upd.pc = "idle"
  /\ id \in CapturedIds
  /\ id \in inboxDir \cup processedDir
  /\ content[id].platform = "discord"
  /\ content[id].context.threadId = NoThread
  /\ upd' = IF id \in inboxDir
            THEN [pc |-> "read", id |-> id, data |-> content[id],
                  ok |-> FALSE]
            ELSE [pc |-> "returned", id |-> id, data |-> NoMsg,
                  ok |-> FALSE]
  /\ UNCHANGED <<inboxVars, dirVars, clientVars, listenerVars, notifyVars,
                 queryVars>>

\* msg.context.threadId = threadId; await fs.writeFile(file, ...)
updateThreadIdWrites ==
  /\ upd.pc = "read"
  /\ content' = [content EXCEPT ![upd.id] =
       [upd.data EXCEPT !.context.threadId = StartedThread]]
  /\ inboxDir' = inboxDir \cup {upd.id}
  /\ upd' = [upd EXCEPT !.pc = "returned", !.ok = TRUE]
  /\ UNCHANGED <<processedDir, conv, clock, dirVars, clientVars,
                 listenerVars, notifyVars, queryVars>>

\* the listener has the result
updateThreadIdReturns ==
  /\ upd.pc = "returned"
  /\ upd' = NoUpdate
  /\ UNCHANGED <<inboxVars, dirVars, clientVars, listenerVars, notifyVars,
                 queryVars>>

StoreNext ==
  \/ \E id \in CapturedIds :
       \/ captureWith(id, CapturedMessages)
       \/ updateThreadIdReads(id)
  \/ \E id \in MsgIds : ackRecord(id)
  \/ updateThreadIdWrites
  \/ updateThreadIdReturns

StoreSpec == InitPoll /\ [][StoreNext]_vars

(***************************************************************************)
(* The HTTP server of the listener: the check of the token, then the       *)
(* route of the request.                                                   *)
(***************************************************************************)
\* the request is recorded with its answer
Answered(method, path, auth, status) ==
  http' = [method |-> method, path |-> path, auth |-> auth,
           status |-> status]

\* the route of a request that passed the check: its first step, and its
\* answer where it answers at once
Route(method, path, auth) ==
  IF method = "POST" /\ path = "/messages/m1/ack"
  THEN IF "m1" \in inboxDir
       THEN ackFile("m1") /\ Answered(method, path, auth, 200)
                          /\ UNCHANGED <<dirVars, notifyVars>>
       ELSE Answered(method, path, auth, 400)
              /\ UNCHANGED <<dirVars, inboxVars, notifyVars>>
  ELSE IF method = "POST" /\ path = "/mcp/check_status"
  THEN /\ AllIdle
       /\ \E autoCleanStale \in BOOLEAN, newAgentId \in {Undefined, AgentB} :
            BeginCall("p1", [NoArg EXCEPT !.op = "listener_check_status",
                                          !.autoCleanStale = autoCleanStale,
                                          !.newAgentId = newAgentId],
                      TRUE, FALSE)
       /\ Answered(method, path, auth, Pending)
       /\ UNCHANGED <<inboxVars, notifyVars>>
  ELSE IF method = "POST" /\ path = "/mcp/initiate_conversation"
  THEN sendMessage /\ Answered(method, path, auth, Pending)
                   /\ UNCHANGED <<dirVars, notifyVars>>
  ELSE IF method = "POST" /\ path = "/mcp/update_user"
  THEN Answered(method, path, auth, IF "m1" \in inboxDir THEN 200 ELSE 404)
         /\ UNCHANGED <<dirVars, inboxVars, notifyVars>>
  ELSE IF method = "GET" /\ path = "/messages"
  THEN Answered(method, path, auth, 200) /\ UNCHANGED <<dirVars, inboxVars, notifyVars>>
  ELSE Answered(method, path, auth, 404) /\ UNCHANGED <<dirVars, inboxVars, notifyVars>>

\* the server receives a request
receive ==
  /\ \E req \in Requests, auth \in Authorizations :
       IF authorized(auth, ingressToken)
       THEN Route(req.method, req.path, auth)
       ELSE Answered(req.method, req.path, auth, 401)
              /\ UNCHANGED <<dirVars, inboxVars, notifyVars>>
  /\ UNCHANGED <<clientVars, ingressToken, queryVars, threadVars>>

\* a listener with or without a token, a directory held for an hour, an
\* empty inbox
InitListenerSpec ==
  /\ beep = NoFile
  /\ boop = BoopFileContent(0, AgentA, "Work in progress")
  /\ now = 1
  /\ config = DefaultConfig
  /\ pc = [p \in Procs |-> "idle"]
  /\ arg = [p \in Procs |-> NoArg]
  /\ st = [p \in Procs |-> NoStatus]
  /\ res = [p \in Procs |-> NoRes]
  /\ eff = [p \in Procs |-> {}]
  /\ faulted = FALSE
  /\ pre = Markers
  /\ prev = NoPrev
  /\ InitClient({DefaultListenerConfig})
  /\ InitInbox
  /\ InitNotify
  /\ InitQuery
  /\ InitThread
  /\ ingressToken \in {NoToken, Token}
  /\ http = NoRequest

\* the requests and the handlers they start; of the conversation a request
\* initiates the storing of its record is followed (its polling reads the
\* inbox and writes nothing)
ListenerNext ==
  \/ receive
  \/ \E p \in {"p1"} :
       \/ checkBeepExists(p)
       \/ checkBoopExists(p)
       \/ getFileMetadata(p)
       \/ cleanupRemoveBoop(p)
       \/ cleanupClaim(p)
       \/ Return(p, FALSE)
  \/ captureWith("m1", {IngressMessage("discord", "userY", "C1", NoThread, InitiatedAt + 1)})
  \/ putDone
  \/ inboxFails

ListenerSpec == InitListenerSpec /\ [][ListenerNext]_vars

(***************************************************************************)
(* The notification blocks of handleUpdateBoop, handleEndWork and          *)
(* handleCheckStatus, and the sends of the managers they construct.  A     *)
(* block runs within one callback: createNotificationManager, createPayload *)
(* and sendNotification up to the await of every webhook's send.           *)
(***************************************************************************)
\* the managers no promise holds
Free == {g \in Managers : managers[g].sending = {}}

\* the sends in flight of the managers the calls of p constructed
sendingOf(p) ==
  UNION {managers[g].sending : g \in {h \in Managers : managers[h].owner = p}}

\* the blocks the call of p has reached the end of
reached(p) ==
  blocksReached(ncfg.enableNotifications, arg[p], pc[p], st[p], res[p])

\* the call of p is past its notification blocks
Proceeds(p) == proceeds(blockRun[p], reached(p), sendingOf(p))

\* sendNotification of the manager m: sendSlackNotification and
\* sendDiscordNotification up to the await of webhook.send
sendNotification(m, services, current) ==
  LET asked == [s \in Services |-> isCircuitBreakerOpen(m.breaker[s], current)]
  IN [m EXCEPT
        !.sending = {s \in services : ~asked[s].open},
        !.breaker = [s \in Services |->
                       IF s \in services THEN asked[s].state ELSE m.breaker[s]]]

\* the manager once a send is settled: nothing refers to it when none of
\* its sends is left
settled(m) == IF m.sending = {} THEN NoManager ELSE m

\* a notification block of the call of p: a new manager sends the payload
notifyBlock(p) ==
  /\ pc[p] # "idle"
  /\ blockRun[p] < reached(p)
  /\ Free # {}
  /\ LET g == CHOOSE h \in Free : TRUE
         m == NewManager(p, typeOfBlock(arg[p], blockRun[p]))
     IN managers' = [managers EXCEPT
                       ![g] = settled(sendNotification(m, ncfg.services, clock))]
  /\ blockRun' = [blockRun EXCEPT ![p] = @ + 1]
  /\ UNCHANGED <<ncfg, sent, dirVars, clientVars, inboxVars, listenerVars, queryVars, threadVars>>

\* a notification block of the call of p throws before it sends: the catch
\* of the block
notifySetupThrows(p) ==
  /\ pc[p] # "idle"
  /\ blockRun[p] < reached(p)
  /\ blockRun' = [blockRun EXCEPT ![p] = @ + 1]
  /\ UNCHANGED <<ncfg, managers, sent, dirVars, clientVars, inboxVars, listenerVars, queryVars, threadVars>>

\* webhook.send of the manager g to the service s resolves
sendSucceeds(g, s) ==
  /\ s \in managers[g].sending
  /\ managers' = [managers EXCEPT
       ![g] = settled([@ EXCEPT !.sending = @ \ {s},
                               !.breaker[s] = resetCircuitBreaker(@)])]
  /\ sent' = [sent EXCEPT ![s] = NoneFailed]
  /\ UNCHANGED <<ncfg, blockRun, dirVars, clientVars, inboxVars, listenerVars, queryVars, threadVars>>

\* webhook.send of the manager g to the service s rejects
sendFails(g, s) ==
  /\ s \in managers[g].sending
  /\ managers' = [managers EXCEPT
       ![g] = settled([@ EXCEPT
                 !.sending = @ \ {s},
                 !.breaker[s] = handleWebhookError(@, clock,
                                  ncfg.notificationRetryAttempts)])]
  /\ sent' = [sent EXCEPT
       ![s] = [failures |-> Min(@.failures + 1, ncfg.notificationRetryAttempts),
               lastFailure |-> clock,
               during |-> ~AllIdle]]
  /\ UNCHANGED <<ncfg, blockRun, dirVars, clientVars, inboxVars, listenerVars, queryVars, threadVars>>

\* the call of p, past its notification blocks, takes its next step
proceed(p) == Proceeds(p) /\ Step(p)

\* the call of p returns its response
returnNotified(p) ==
  /\ Proceeds(p)
  /\ ReturnCall(p, FALSE)
  /\ blockRun' = [blockRun EXCEPT ![p] = 0]
  /\ sent' = [s \in Services |-> [sent[s] EXCEPT !.during = FALSE]]
  /\ UNCHANGED <<ncfg, managers, clientVars, inboxVars, listenerVars, queryVars, threadVars>>

\* six minutes pass
NotifyTickMs == 6 * 60 * 1000

minutesPass ==
  /\ clock < InitiatedAt + MaxNotifyTicks * NotifyTickMs
  /\ clock' = clock + NotifyTickMs
  /\ UNCHANGED <<inboxDir, processedDir, content, conv, nonInboxVars>>

\* a directory in any marker state, its hold an hour old; notifications
\* disabled or enabled
InitNotifySpec ==
  /\ beep \in {NoFile, BeepFileContent(0, Undefined)}
  /\ boop \in {NoFile, BoopFileContent(0, AgentA, "Work in progress")}
  /\ now = 1
  /\ config = DefaultConfig
  /\ pc = [p \in Procs |-> "idle"]
  /\ arg = [p \in Procs |-> NoArg]
  /\ st = [p \in Procs |-> NoStatus]
  /\ res = [p \in Procs |-> NoRes]
  /\ eff = [p \in Procs |-> {}]
  /\ faulted = FALSE
  /\ pre = Markers
  /\ prev = NoPrev
  /\ InitClient({DefaultListenerConfig})
  /\ InitInbox
  /\ InitListener
  /\ InitQuery
  /\ InitThread
  /\ ncfg \in NotifyConfigs
  /\ blockRun = [p \in Procs |-> 0]
  /\ managers = [g \in Managers |-> NoManager]
  /\ sent = [s \in Services |-> NoneFailed]

\* a call begins when no other is in progress, and two managers are there
\* for it to construct
MayBegin == AllIdle /\ Cardinality(Free) >= 2

\* the tools called one at a time, with the sends of earlier calls in flight
NotifyNext ==
  \/ \E p \in {"p1"} :
       \/ MayBegin /\ handleCreateBeep(p, FALSE)
       \/ MayBegin /\ handleUpdateBoop(p, FALSE)
       \/ MayBegin /\ handleEndWork(p, FALSE)
       \/ MayBegin /\ handleCheckStatus(p, FALSE)
       \/ proceed(p)
       \/ notifyBlock(p)
       \/ notifySetupThrows(p)
       \/ returnNotified(p)
  \/ \E g \in Managers, s \in Services :
       \/ sendSucceeds(g, s)
       \/ sendFails(g, s)
  \/ minutesPass

NotifySpec == InitNotifySpec /\ [][NotifyNext]_vars

(***************************************************************************)
(* Vocabulary of the properties.                                           *)
(***************************************************************************)
\* the call of p has its response, and was a call of the tool op
Done(p, op) == pc[p] = "done" /\ arg[p].op = op

\* the state of the directory now, and when the current call started
CurState == WorkStateOf(beep.exists, boop.exists)

PreState == WorkStateOf(pre.beep.exists, pre.boop.exists)

\* the current call has left both markers as it found them
MarkersUntouched(p) == eff[p] = {} /\ beep = pre.beep /\ boop = pre.boop

\* the hold record names the (trimmed) id
HeldBy(agentId) ==
  CurState = "work_in_progress" /\ ~boop.blank /\ boop.agentId = Trim(agentId)

\* the call before the current one was a successful op by agentId
Follows(op, agentId) == prev = [op |-> op, agentId |-> agentId, ok |-> TRUE]

\* the hold record the current call found was stale for its maxAgeHours
PreStale(p) ==
  /\ PreState = "work_in_progress"
  /\ ~pre.boop.blank
  /\ isFileStale(pre.boop.mtime, pre.now, arg[p].maxAgeHours)

(***************************************************************************)
(* C1 (SeqSpec).  A successful claim by a leaves the directory Held with   *)
(* holder a; a claim by b # a that follows it fails with                   *)
(* WORK_ALREADY_IN_PROGRESS naming a and leaves both markers as they were. *)
(***************************************************************************)
C1_ClaimThenConflict ==
  \A p \in Procs :
    Done(p, "update_boop") =>
      /\ res[p].ok => HeldBy(arg[p].agentId)
      /\ \A a \in CallerAgentIds(TRUE) :
           ( /\ Follows("update_boop", a)
             /\ a # arg[p].agentId
             /\ validateAgentIdWithConfig(arg[p].agentId, config) )
           => /\ ~res[p].ok
              /\ res[p].code = "WORK_ALREADY_IN_PROGRESS"
              /\ res[p].holder = Trim(a)
              /\ MarkersUntouched(p)
              /\ HeldBy(a)

(***************************************************************************)
(* C2 (Spec).  From an unclaimed directory, and with no filesystem call    *)
(* failing, no interleaving of the steps of concurrent calls reaches a     *)
(* state with both markers present.                                        *)
(***************************************************************************)
C2_NeverBothMarkers == ~faulted => ~(beep.exists /\ boop.exists)

(***************************************************************************)
(* C3 (Spec).  Two agents claim the same unclaimed directory concurrently  *)
(* (both obtain their status before either writes).                        *)
(***************************************************************************)
RacingClaims(p, q) ==
  /\ p # q
  /\ Done(p, "update_boop") /\ Done(q, "update_boop")
  /\ st[p].status = "no_coordination" /\ st[q].status = "no_coordination"
  /\ Trim(arg[p].agentId) # Trim(arg[q].agentId)

C4_ConflictRejectsClaimAndRelease ==
  \A p \in Procs :
    ( /\ Done(p, "update_boop") \/ Done(p, "end_work")
      /\ PreState = "invalid_state"
      /\ validateAgentIdWithConfig(arg[p].agentId, config) )
    => /\ ~res[p].ok
       /\ res[p].code = "INVALID_STATE"
       /\ MarkersUntouched(p)

(***************************************************************************)
(* C5 (SeqSpec).  Once both markers are present, no step of any call       *)
(* started afterwards removes either of them.                              *)
(***************************************************************************)
C5_ConflictAbsorbing ==
  [][(beep.exists /\ boop.exists) => (beep'.exists /\ boop'.exists)]_vars

\* check_status with autoCleanStale has answered on a directory it found
\* with both markers, the hold record older than maxAgeHours
C5_Witness ==
  \E p \in Procs :
    /\ Done(p, "check_status")
    /\ arg[p].autoCleanStale
    /\ PreState = "invalid_state"
    /\ ~pre.boop.blank
    /\ isFileStale(pre.boop.mtime, pre.now, arg[p].maxAgeHours)
    /\ res[p].ok
    /\ res[p].status = "invalid_state"
    /\ beep.exists /\ boop.exists

(***************************************************************************)
(* C6 (SeqSpec).  For every agent id that validation accepts, a claim that *)
(* follows a successful claim with the same id succeeds and leaves one     *)
(* hold record, with that holder and a timestamp of this call.             *)
(***************************************************************************)
C6_ReclaimIdempotent ==
  \A p \in Procs :
    ( /\ Done(p, "update_boop")
      /\ validateAgentIdWithConfig(arg[p].agentId, config)
      /\ Follows("update_boop", arg[p].agentId) )
    => /\ res[p].ok
       /\ HeldBy(arg[p].agentId)
       /\ "wroteBoop" \in eff[p]
       /\ boop.mtime >= pre.now

(***************************************************************************)
(* C7 (SeqSpec).  A release by a that follows a successful claim by a      *)
(* leaves only the released marker, completedBy a; a claim by any valid a2 *)
(* that follows the release succeeds, leaving the directory Held by a2     *)
(* and the released marker removed.                                        *)
(***************************************************************************)
C7_ClaimReleaseClaim ==
  \A p \in Procs :
    /\ ( /\ Done(p, "end_work")
         /\ Follows("update_boop", arg[p].agentId)
         /\ ~faulted )
       => /\ res[p].ok
          /\ CurState = "work_allowed"
          /\ beep.completedBy = arg[p].agentId
    /\ ( /\ Done(p, "update_boop")
         /\ validateAgentIdWithConfig(arg[p].agentId, config)
         /\ prev.op = "end_work" /\ prev.ok )
       => /\ res[p].ok
          /\ HeldBy(arg[p].agentId)
          /\ ~beep.exists

(***************************************************************************)
(* C8 (SeqSpec).  A release by a succeeds only on a directory Held with    *)
(* holder a; it fails with WORK_NOT_CLAIMED when there is no hold marker   *)
(* and with AGENT_MISMATCH when the directory is Held and the holder is    *)
(* not a (a holder that cannot be determined included); a failing release  *)
(* leaves both markers as they were.                                       *)
(***************************************************************************)
C8_ReleaseOnlyByHolder ==
  \A p \in Procs :
    ( /\ Done(p, "end_work")
      /\ validateAgentIdWithConfig(arg[p].agentId, config)
      /\ ~faulted )
    => /\ res[p].ok =>
            PreState = "work_in_progress" /\ pre.boop.agentId = arg[p].agentId
       /\ ~pre.boop.exists =>
            ~res[p].ok /\ res[p].code = "WORK_NOT_CLAIMED"
       /\ (PreState = "work_in_progress" /\ pre.boop.agentId # arg[p].agentId) =>
            ~res[p].ok /\ res[p].code = "AGENT_MISMATCH"
       /\ ~res[p].ok => MarkersUntouched(p)

(***************************************************************************)
(* C9 (SeqSpec).  create_beep succeeds only on an unclaimed directory; on  *)
(* a Held one it fails and leaves the hold record; on every directory that *)
(* is not unclaimed it writes no released record.                          *)
(***************************************************************************)
C9_MarkCompleteOnlyUnclaimed ==
  \A p \in Procs :
    Done(p, "create_beep") =>
      /\ res[p].ok => PreState = "no_coordination"
      /\ PreState = "work_in_progress" => ~res[p].ok /\ boop = pre.boop
      /\ PreState # "no_coordination" => "wroteBeep" \notin eff[p]

(***************************************************************************)
(* C10 (SeqSpec).  check_status with autoCleanStale on a Held directory    *)
(* whose hold record is stale: with a newAgentId that passes validation    *)
(* the directory ends Held by newAgentId, cleanup and claim both reported; *)
(* with no newAgentId it ends unclaimed, cleanup reported and no claim.    *)
(***************************************************************************)
C10_ReclaimStale ==
  \A p \in Procs :
    ( /\ Done(p, "check_status")
      /\ arg[p].autoCleanStale
      /\ PreStale(p) )
    => /\ validateAgentIdWithConfig(arg[p].newAgentId, config) =>
            /\ res[p].ok /\ res[p].cleanedUp /\ res[p].claimed
            /\ HeldBy(arg[p].newAgentId)
            /\ boop.workDescription = "Claimed after stale cleanup"
       /\ arg[p].newAgentId = Undefined =>
            /\ res[p].ok /\ res[p].cleanedUp /\ ~res[p].claimed
            /\ CurState = "no_coordination"

(***************************************************************************)
(* C11 (SeqSpec).  check_status with autoCleanStale on a Held directory    *)
(* whose hold record is stale, with a newAgentId that fails validation (by *)
(* its length, its characters or the required prefix).                     *)
(***************************************************************************)
ReclaimWithInvalidId(p) ==
  /\ Done(p, "check_status")
  /\ arg[p].autoCleanStale
  /\ PreStale(p)
  /\ arg[p].newAgentId # Undefined
  /\ ~validateAgentIdWithConfig(arg[p].newAgentId, config)

\* C11 as claimed: the call fails, writes no hold record, and has deleted
\* the stale hold record (nothing else is changed)
C11_InvalidIdDeletesOnly ==
  \A p \in Procs :
    ReclaimWithInvalidId(p) =>
      /\ ~res[p].ok
      /\ "wroteBoop" \notin eff[p]
      /\ eff[p] = {"removedBoop"}
      /\ ~boop.exists
      /\ beep = pre.beep

\* C11 as amended: the call fails with INVALID_AGENT_ID before it changes
\* anything: the stale hold record is still there, both markers as found
C11_InvalidIdChangesNothing ==
  \A p \in Procs :
    ReclaimWithInvalidId(p) =>
      /\ ~res[p].ok
      /\ res[p].code = "INVALID_AGENT_ID"
      /\ MarkersUntouched(p)
      /\ boop.exists /\ boop.agentId = pre.boop.agentId

\* the newAgentId lacks the required prefix, and the stale record stays
C11_Witness ==
  \E p \in Procs :
    /\ ReclaimWithInvalidId(p)
    /\ config.requireTeamPrefix
    /\ arg[p].newAgentId = AgentA
    /\ ~res[p].ok
    /\ boop = pre.boop /\ boop.exists

(***************************************************************************)
(* C12 (Spec).  Stale cleanup and claim are an atomic handover: whatever   *)
(* claims and releases of other agents interleave with a check_status that *)
(* cleans up, the hold record its removeBoopFile deletes is the record     *)
(* whose staleness it evaluated, and the claim that follows the deletion   *)
(* overwrites no hold record written in between.                           *)
(***************************************************************************)
\* the hold record is the one the status of the call of p was taken from
EvaluatedRecord(p) ==
  /\ boop.exists
  /\ ~boop.blank
  /\ boop.agentId = st[p].agentId
  /\ boop.mtime = st[p].boopTimestamp

C12_AtomicHandover ==
  [][\A p \in Procs :
       /\ (pc[p] = "csRemove" /\ pc'[p] # "csRemove") => EvaluatedRecord(p)
       /\ (pc[p] = "csClaim" /\ pc'[p] # "csClaim") => ~boop.exists]_vars

(***************************************************************************)
(* C13 (AgeSpec).  For every hold timestamp t, clock reading now and       *)
(* threshold maxAgeHours >= 0, check_status reports the hold record stale  *)
(* if and only if now - t is strictly greater than maxAgeHours: not at the *)
(* threshold itself, not for a timestamp ahead of the clock; a record 25   *)
(* hours old is stale for a threshold of 24 and not for one of 26.         *)
(***************************************************************************)
\* the age, in hours, of the hold record the current call found
PreAge == pre.now - pre.boop.mtime

C13_StaleIffStrictlyOlder ==
  \A p \in Procs :
    ( /\ Done(p, "check_status")
      /\ ~arg[p].autoCleanStale
      /\ PreState = "work_in_progress"
      /\ ~pre.boop.blank )
    => /\ res[p].ok
       /\ res[p].stale <=> PreAge > arg[p].maxAgeHours
       /\ PreAge = arg[p].maxAgeHours => ~res[p].stale
       /\ PreAge < 0 => ~res[p].stale
       /\ (PreAge = 25 /\ arg[p].maxAgeHours = 24) => res[p].stale
       /\ (PreAge = 25 /\ arg[p].maxAgeHours = 26) => ~res[p].stale

\* a record 25 hours old has been reported stale for a threshold of 24
C13_Witness ==
  \E p \in Procs :
    /\ Done(p, "check_status")
    /\ ~arg[p].autoCleanStale
    /\ PreAge = 25
    /\ arg[p].maxAgeHours = 24
    /\ res[p].stale

(***************************************************************************)
(* C14 (SeqSpec).  Staleness is advisory: a check_status without           *)
(* autoCleanStale leaves both markers as they were in every state of the   *)
(* directory, however old the hold record; one with autoCleanStale changes *)
(* a marker only when the directory is Held and its hold record stale.     *)
(***************************************************************************)
C14_StalenessAdvisory ==
  \A p \in Procs :
    arg[p].op = "check_status" =>
      /\ ~arg[p].autoCleanStale => MarkersUntouched(p)
      /\ ~MarkersUntouched(p) =>
           /\ arg[p].autoCleanStale
           /\ PreState = "work_in_progress"
           /\ ~pre.boop.blank
           /\ isFileStale(pre.boop.mtime, now, arg[p].maxAgeHours)

\* a stale hold record has been reported, and left where it was
C14_Witness ==
  \E p \in Procs :
    /\ Done(p, "check_status")
    /\ ~arg[p].autoCleanStale
    /\ PreStale(p)
    /\ res[p].ok /\ res[p].stale
    /\ boop = pre.boop /\ boop.exists

(***************************************************************************)
(* Vocabulary of the properties of the delegation client.                  *)
(***************************************************************************)
\* the calls whose request is out: sent, and its answer not yet read
InFlight == {c \in Calls : cpc[c] \in {"fetching", "reading"}}

\* the calls that have a slot
Holding == {c \in Calls : cpc[c] \in {"acquired", "fetching", "reading"}}

\* the calls that wait for a slot
Waiting == {c \in Calls : cpc[c] = "waiting"}

\* the call c gets its slot in this step
Acquires(c) == cpc[c] \in {"idle", "waiting"} /\ cpc'[c] = "acquired"

(***************************************************************************)
(* C15 (ClientSpec).  With a semaphore of N slots, no more than N requests *)
(* are in flight, however many post calls overlap; of N + 1 calls begun    *)
(* and none completed, exactly one waits (the others hold the N slots).    *)
(***************************************************************************)
C15_AtMostNInFlight ==
  LET N == lcfg.maxConcurrentListenerRequests IN
  /\ Cardinality(InFlight) <= N
  /\ Cardinality(Holding) <= N
  /\ counter = N - Cardinality(Holding)
  /\ Cardinality(Holding \cup Waiting) = N + 1 =>
       /\ Cardinality(Waiting) = 1
       /\ Len(queue) = 1
       /\ Cardinality(Holding) = N

\* two slots, two requests in flight, and the third call waiting
C15_Witness ==
  /\ lcfg.maxConcurrentListenerRequests = 2
  /\ Cardinality(InFlight) = 2
  /\ Cardinality(Waiting) = 1

(***************************************************************************)
(* C16 (ClientSpec).  The calls in excess of the slots are served first    *)
(* in, first out: a call begins to wait at the end of the queue, the queue *)
(* keeps its order, the waiting call that gets a slot is the one at its    *)
(* head, and a call that arrives while others wait gets no slot on arrival.*)
(***************************************************************************)
C16_FirstInFirstOut ==
  [][/\ \A c \in Calls :
          /\ (cpc[c] = "idle" /\ cpc'[c] = "waiting") => queue' = Append(queue, c)
          /\ (cpc[c] = "waiting" /\ cpc'[c] = "acquired") =>
               queue # <<>> /\ c = Head(queue) /\ queue' = Tail(queue)
          /\ (cpc[c] = "idle" /\ cpc'[c] = "acquired") => queue = <<>>
          /\ cpc[c] = "waiting" => cpc'[c] \in {"waiting", "acquired"}
     /\ queue' # queue =>
          \/ queue # <<>> /\ queue' = Tail(queue)
          \/ \E d \in Calls : queue' = Append(queue, d)]_vars

\* a call that began to wait second in line has got its slot, after the
\* call ahead of it
C16_Witness ==
  \E c \in Calls :
    /\ call[c].waited
    /\ call[c].behind = 1
    /\ cpc[c] = "acquired"
    /\ Waiting = {}

(***************************************************************************)
(* C17 (FairClientSpec).  A call whose request gets no answer ends when    *)
(* its timer fires, with the timeout result, and its slot is free in that  *)
(* very step (the counter is raised, or the oldest waiting call has the    *)
(* slot); and, every request being answered, failing or reaching its       *)
(* timeout, every call that waits for a slot gets one and returns.         *)
(***************************************************************************)
TimesOut(c) == cpc[c] = "fetching" /\ call'[c].outcome = "abort"

C17_TimeoutFreesSlot ==
  /\ [][\A c \in Calls :
          TimesOut(c) =>
            /\ cpc'[c] = "done"
            /\ call'[c].ret = catchResult(TRUE)
            /\ IF queue = <<>>
               THEN counter' = counter + 1
               ELSE cpc'[Head(queue)] = "acquired" /\ queue' = Tail(queue)]_vars
  /\ \A c \in Calls :
       (cpc[c] = "waiting") ~> (cpc[c] = "done" /\ call[c].timer # "none")

\* a call has timed out, and the call that waited for its slot has returned
C17_Witness ==
  \E c, d \in Calls :
    /\ c # d
    /\ lcfg.maxConcurrentListenerRequests = 1
    /\ cpc[d] = "done" /\ call[d].outcome = "abort"
    /\ call[c].waited /\ call[c].behind = 0
    /\ cpc[c] = "done" /\ call[c].timer # "none"

(***************************************************************************)
(* C18 (TimeoutSpec).  For a body whose serialization is L characters long *)
(* the timeout of the request is base + L * perChar, or max when that is   *)
(* more: 1050 ms for 10 characters and 60000 ms for 20000 with base 1000,  *)
(* perChar 5 and max 60000; it never exceeds max and is never below the    *)
(* smaller of base and max.                                                *)
(***************************************************************************)
C18_AdaptiveTimeout ==
  \A c \in Calls :
    call[c].timer # "none" =>
      LET L == call[c].payload.textLen
          base == lcfg.listenerTimeoutBaseMs
          perChar == lcfg.listenerTimeoutPerCharMs
          max == lcfg.listenerTimeoutMaxMs
          example == base = 1000 /\ perChar = 5 /\ max = 60000
          timeoutMs == call[c].timeoutMs
      IN /\ call[c].payload.serializable =>
              /\ base + L * perChar <= max => timeoutMs = base + L * perChar
              /\ base + L * perChar > max => timeoutMs = max
              /\ (example /\ L = 10) => timeoutMs = 1050
              /\ (example /\ L = 20000) => timeoutMs = 60000
         /\ timeoutMs <= max
         /\ timeoutMs >= base \/ timeoutMs >= max

\* the request for a body of 20000 characters has reached its timeout, of
\* 60000 ms
C18_Witness ==
  \E c \in Calls :
    /\ cpc[c] = "done"
    /\ call[c].outcome = "abort"
    /\ call[c].payload = Payload(20000)
    /\ lcfg.listenerTimeoutBaseMs = 1000
    /\ call[c].timeoutMs = 60000

(***************************************************************************)
(* C19 (ClientSpec).  Every post call ends with a result value: ok exactly *)
(* for an answer with a 2xx status; an answer with another status gives    *)
(* ok = false, that status and the error message of the answer; a timeout  *)
(* gives ok = false and status 408; a network or serialization failure     *)
(* gives ok = false and status 500.                                        *)
(***************************************************************************)
C19_EveryOutcomeIsAResult ==
  \A c \in Calls :
    cpc[c] = "done" =>
      LET r == call[c].ret
          outcome == call[c].outcome
          answered == outcome = "response"
          is2xx == call[c].status \in 200..299
      IN /\ r # NoResult
         /\ r.ok \in BOOLEAN
         /\ r.ok <=> (answered /\ is2xx)
         /\ r.ok => r.status = call[c].status /\ r.data = call[c].body
         /\ (answered /\ ~is2xx) =>
              /\ r.status = call[c].status
              /\ call[c].body = JsonBody("remote error") => r.error = "remote error"
         /\ outcome = "abort" => ~r.ok /\ r.status = 408
         /\ outcome \in {"network", "serialization"} => ~r.ok /\ r.status = 500
         /\ outcome = "none" => r = Unavailable

\* the listener has answered 404 with an error message, and post has
\* returned both
C19_Witness ==
  \E c \in Calls :
    /\ cpc[c] = "done"
    /\ call[c].outcome = "response"
    /\ call[c].status = 404
    /\ call[c].body = JsonBody("remote error")
    /\ call[c].ret = [ok |-> FALSE, status |-> 404, error |-> "remote error",
                       data |-> NotJson]

(***************************************************************************)
(* C20 (ClientSpec).  With delegation disabled, or no base URL, post       *)
(* returns the unavailable result (ok = false, status 503) in the step in  *)
(* which it is called: it sends no request, takes no slot of the           *)
(* semaphore and joins no queue.                                           *)
(***************************************************************************)
C20_UnavailableAtOnce ==
  [][\A c \in Calls :
       (NotConfigured /\ cpc[c] = "idle" /\ cpc'[c] # "idle") =>
         /\ cpc'[c] = "done"
         /\ call'[c].ret = Unavailable
         /\ ~call'[c].ret.ok /\ call'[c].ret.status = 503
         /\ ~call'[c].sent
         /\ ~call'[c].waited
         /\ counter' = counter
         /\ queue' = queue]_vars

\* a client with a base URL and delegation disabled has returned the
\* unavailable result, all its slots free
C20_Witness ==
  \E c \in Calls :
    /\ ~lcfg.listenerEnabled
    /\ lcfg.listenerBaseUrl # ""
    /\ cpc[c] = "done"
    /\ call[c].ret = Unavailable
    /\ counter = lcfg.maxConcurrentListenerRequests
    /\ queue = <<>>

(***************************************************************************)
(* C21  When delegation is enabled and the delegated call of check_status, *)
(* update_user or initiate_conversation fails (timeout, network failure or *)
(* a response that is not 2xx), the tool falls back to local processing    *)
(* and answers with the local result, not with the delegation error.       *)
(* The handlers answer with the error of the listener and run nothing      *)
(* locally.                                                                *)
(***************************************************************************)
DelegationFailed(c) ==
  /\ cpc[c] = "responded"
  /\ ~call[c].ret.ok

C21_FallsBackToLocal ==
  \A c \in Calls :
    (ToolOf(c) \in {"check_status", "update_user", "initiate_conversation"}
       /\ DelegationFailed(c))
      => call[c].response.text # "Listener error"

(***************************************************************************)
(* Vocabulary of the claims on the reply correlation.                      *)
(***************************************************************************)
\* the conversation has returned the record id as the reply
Replied(id) ==
  /\ conv.pc = "returned"
  /\ conv.outcome.kind = "reply"
  /\ conv.outcome.id = id

\* the record r references the thread of the conversation c or, when no
\* thread was created, its channel or the message that initiated it
References(r, c) ==
  IF c.threadId # NoThread
  THEN r.context.threadId = c.threadId
  ELSE r.context.channelId = c.channelId \/ r.context.threadTs = c.messageId

(***************************************************************************)
(* C22  initiate returns a record r as the reply only if r is for the same *)
(* platform, r references the thread of the conversation (or, when no      *)
(* thread was created, the same channel or the initiating message), the    *)
(* author of r is not the initiator, and r is strictly later than the      *)
(* initiating record.  On Discord, when no thread was created, a record    *)
(* without a thread from any other channel is returned.                    *)
(***************************************************************************)
C22_ReplyOnlyFromContext ==
  \A id \in MsgIds :
    Replied(id) =>
      /\ content[id].platform = conv.platform
      /\ References(content[id], conv)
      /\ content[id].authoredBy # conv.agentId
      /\ content[id].createdAt > conv.createdAt

(***************************************************************************)
(* C23  For both platforms: given an initiating record at t0 in channel C  *)
(* by agent X, whenever an unacknowledged record at t1 > t0 in channel C   *)
(* authored by Y # X is in the store at a poll tick before the deadline,   *)
(* that tick ends the wait with a reply outcome, never a timeout.          *)
(* On Discord a record of the channel that is not in the thread of the     *)
(* conversation is passed over, and on both platforms a record that is     *)
(* acknowledged between the list and its read is.  What holds: a record    *)
(* listed by the tick that is for the platform, by another author, later,  *)
(* and in the conversation (Discord: the same threadId, undefined when no  *)
(* thread was created; Slack: the threadTs of the initiating message or    *)
(* the same channel) ends the wait at that tick unless it is acknowledged  *)
(* during the tick, and the record returned is such a record of the tick.  *)
(***************************************************************************)
\* the record r is in channel C, later than the initiating record of c and
\* by another author
InChannelReply(r, c) ==
  /\ r.platform = c.platform
  /\ r.context.channelId = c.channelId
  /\ r.authoredBy # c.agentId
  /\ r.createdAt > c.createdAt

\* the record r is in the conversation c, later and by another author
InConversationReply(r, c) ==
  /\ r.platform = c.platform
  /\ \/ c.platform = "discord" /\ r.context.threadId = c.threadId
     \/ c.platform = "slack" /\ r.context.threadTs = c.messageId
     \/ c.platform = "slack" /\ r.context.channelId = c.channelId
  /\ r.authoredBy # c.agentId
  /\ r.createdAt > c.createdAt

\* the tick has read all it listed and found no reply
TickPassed == conv.pc = "sleep"

C25_AcknowledgedNeverReturned ==
  \A id \in MsgIds :
    Replied(id) => id \notin conv.ackedBefore

\* a reply of the conversation was acknowledged before the tick, and the
\* tick returns another one
C25_Witness ==
  \E id \in CapturedIds, acked \in CapturedIds :
    /\ Replied(id)
    /\ acked \in conv.ackedBefore
    /\ InConversationReply(content[acked], conv)

(***************************************************************************)
(* C24  initiate always terminates: if no qualifying record ever appears   *)
(* in the store, the polling loop stops once the deadline has elapsed,     *)
(* after at most ceil(deadline / pollInterval) polls and so within the     *)
(* deadline plus one poll interval, and the call returns a timeout that is *)
(* no error and carries the id of the initiating record.  (The timers fire *)
(* when due; a call whose inbox cannot be read or written ends at once     *)
(* with the answer of the inner catch.)                                    *)
(***************************************************************************)
\* ceil(deadline / pollInterval)
MaxPolls == (MaxWaitTimeMs + PollIntervalMs - 1) \div PollIntervalMs

\* the conversation has returned the timeout outcome
TimedOut == conv.pc = "returned" /\ conv.outcome.kind = "timeout"

\* no record of the store is a reply of the conversation
NoReplyInStore ==
  \A id \in MsgIds : ~InConversationReply(content[id], conv)

C24_BoundedWait ==
  /\ conv.pollCount <= MaxPolls
  /\ (conv.pc = "returned" /\ NoReplyInStore /\ conv.outcome.kind # "not stored")
       => TimedOut
  /\ TimedOut =>
       /\ ~conv.outcome.isError
       /\ conv.outcome.id = InitiatingId
       /\ clock - conv.startTime >= MaxWaitTimeMs
       /\ clock - conv.startTime <= MaxWaitTimeMs + PollIntervalMs

C24_Terminates ==
  /\ []C24_BoundedWait
  /\ (conv.pc = "put") ~> (conv.pc = "returned")

\* the deadline passes after the last poll, with records in the inbox
C24_Witness ==
  /\ TimedOut
  /\ conv.pollCount = MaxPolls
  /\ "m1" \in inboxDir
  /\ NoReplyInStore

(***************************************************************************)
(* C26  Delegated and local status checks are equivalent: for every marker *)
(* state and every parameter set, POST /mcp/check_status of the listener   *)
(* leaves the markers as the local check_status would and agrees with it   *)
(* on success versus error.  Both handlers obtain the status with          *)
(* getWorkStatus and clean up with cleanupStaleBoopAndClaim; what each     *)
(* does with a status it obtained is its own code.  With every status      *)
(* either of them obtains, both go on to the same step, and where they     *)
(* answer they agree on success and on what they report.                   *)
(***************************************************************************)
\* the call of p is a status check, local or of the listener, that has
\* obtained a status
StatusObtained(p) ==
  /\ arg[p].op \in {"check_status", "listener_check_status"}
  /\ pc[p] # "idle"
  /\ st[p].status # "none"

C26_ListenerAgreesWithLocal ==
  \A p \in Procs :
    StatusObtained(p) =>
      LET remote == AfterStatusListenerCheckStatus(arg[p], st[p], now, config)
          local == AfterStatusCheckStatus(arg[p], st[p], now, config)
      IN /\ remote.pc = local.pc
         /\ remote.res.ok = local.res.ok
         /\ remote.res.status = local.res.status
         /\ remote.res.claimed = local.res.claimed
         /\ remote.res.cleanedUp = local.res.cleanedUp

\* the listener has cleaned a stale hold up and claimed the directory, and
\* has refused a newAgentId that is not valid
C26_Witness ==
  \E p \in Procs :
    /\ Done(p, "listener_check_status")
    /\ res[p].ok
    /\ res[p].claimed
    /\ HeldBy(arg[p].newAgentId)
    /\ prev.op = "listener_check_status"
    /\ ~prev.ok

(***************************************************************************)
(* C27  When an ingress HTTP auth token is configured, every request to    *)
(* the listener, of any method and path, whose Authorization header is not *)
(* exactly 'Bearer <token>' is answered 401 and changes no marker of any   *)
(* directory and nothing in the inbox.                                     *)
(***************************************************************************)
\* the step is the receipt of a request
Received == http' # http

C27_UnauthorizedChangesNothing ==
  [][ ( /\ Received
        /\ ingressToken # NoToken
        /\ http'.auth # BearerPrefix \o ingressToken )
      => ( /\ http'.status = 401
           /\ UNCHANGED <<beep, boop, pc, inboxDir, processedDir, content, conv>> )
    ]_vars

\* a request to check the status of a directory whose hold is stale, and
\* one to acknowledge a record of the inbox, are refused
C27_Witness ==
  /\ http.status = 401
  /\ http.method = "POST"
  /\ http.path \in {"/mcp/check_status", "/messages/m1/ack"}
  /\ http.auth = BearerPrefix \o <<"s">>
  /\ "m1" \in inboxDir
  /\ boop.exists
  /\ now > 0

(***************************************************************************)
(* C28  Marker deletion is idempotent for either marker: deleting an       *)
(* absent released or held record is success, not error, in every          *)
(* operation that deletes a marker (release, reclaimStale, and the removal *)
(* of the released marker by claim), also when a concurrent call has       *)
(* already removed it.  removeBoopFile takes ENOENT for success; the       *)
(* unlink of the released marker in update_boop does not.                  *)
(***************************************************************************)
\* the call of p has answered with the error of a deletion that found no
\* marker to delete
DeletionOfAbsentFailed(p) ==
  /\ pc[p] = "done"
  /\ arg[p].op = "update_boop"
  /\ res[p].code = "BEEP_REMOVE_FAILED"
  /\ ~beep.exists

C28_DeletionIdempotent ==
  \A p \in Procs : ~DeletionOfAbsentFailed(p)

(***************************************************************************)
(* C29: webhook notification failures never affect coordination.  No step  *)
(* of a notification (the block of a handler, with its setup throwing or   *)
(* not, and the delivery succeeding or failing) changes the markers, the   *)
(* position of a call or its response; and a call of update_boop, end_work *)
(* or check_status that is past a notification block can take its next    *)
(* step, or return, whatever is still to be delivered.                     *)
(***************************************************************************)
NotificationStep ==
  \/ managers' # managers
  \/ \E p \in Procs : blockRun'[p] > blockRun[p]

\* the call of p has executed every notification block it came to
BlocksExecuted(p) ==
  /\ pc[p] # "idle"
  /\ arg[p].op \in {"update_boop", "end_work", "check_status"}
  /\ blockRun[p] = reached(p)

C29_NotificationsNeverInterfere ==
  /\ [](\A p \in {"p1"} :
          BlocksExecuted(p) => ENABLED (proceed(p) \/ returnNotified(p)))
  /\ [][NotificationStep =>
          UNCHANGED <<beep, boop, now, pc, arg, st, res, eff>>]_vars

\* update_boop has claimed the directory and returned while the send of
\* its WORK_STARTED notification is in flight, after a send that failed
C29_Witness ==
  \E g \in Managers :
    /\ managers[g].type = "WORK_STARTED"
    /\ managers[g].sending # {}
    /\ pc[managers[g].owner] = "idle"
    /\ boop.exists
    /\ sent["discord"].failures >= 1

(***************************************************************************)
(* C30: circuit breaker.  Once notificationRetryAttempts sends to a        *)
(* service have failed in a row, across the calls of the tools, no call    *)
(* that begins afterwards attempts a send to that service until five       *)
(* minutes have passed since the failure that was last.                    *)
(***************************************************************************)
\* a send to the service s is attempted
Attempted(s) ==
  \E g \in Managers :
    s \in managers'[g].sending /\ s \notin managers[g].sending

\* the circuit of the service s ought to be open for the calls that begin
OughtToBeOpen(s) ==
  /\ sent[s].failures >= ncfg.notificationRetryAttempts
  /\ ~sent[s].during
  /\ clock - sent[s].lastFailure <= ResetTimeMs

C30_OpenCircuitStopsSends ==
  [][\A s \in Services : OughtToBeOpen(s) => ~Attempted(s)]_vars

(***************************************************************************)
(* C31: within one claim or release call that runs without interference,   *)
(* the marker to remove is deleted before the marker to create is written: *)
(* a claim writes the boop file only when no beep file is there, a release *)
(* writes the beep file only when no boop file is there.                   *)
(***************************************************************************)
\* the call of p writes the marker it creates
WritesCreated(p) ==
  \/ arg[p].op = "update_boop" /\ pc[p] = "ubWrite" /\ pc'[p] = "done"
  \/ arg[p].op = "end_work" /\ pc[p] = "ewBeep" /\ pc'[p] = "done"

C31_RemovedBeforeCreated ==
  [][\A p \in Procs :
       WritesCreated(p) => ~(beep'.exists /\ boop'.exists)]_vars

\* what holds of the calls that began on a directory without both markers:
\* no state of the call holds both, and until the call has its response the
\* directory is as the call found it or holds no marker
\* the call of p is a claim or a release that began without both markers
ClaimOrRelease(p) ==
  /\ pc[p] # "idle"
  /\ arg[p].op \in {"update_boop", "end_work"}
  /\ ~(pre.beep.exists /\ pre.boop.exists)

NoMarker == ~beep.exists /\ ~boop.exists

AsFound == beep.exists = pre.beep.exists /\ boop.exists = pre.boop.exists

C31_DeleteBeforeWrite ==
  \A p \in Procs :
    ClaimOrRelease(p) =>
      /\ ~(beep.exists /\ boop.exists)
      /\ pc[p] # "done" => (AsFound \/ NoMarker)

\* a claim of a released directory has deleted the beep file and is about
\* to write the boop file; a release has deleted the boop file and is about
\* to write the beep file
C31_Witness ==
  \E p \in Procs :
    /\ ClaimOrRelease(p)
    /\ NoMarker
    /\ \/ pc[p] = "ubWrite" /\ pre.beep.exists /\ "removedBeep" \in eff[p]
       \/ pc[p] = "ewBeep" /\ pre.boop.exists /\ "removedBoop" \in eff[p]

(***************************************************************************)
(* C32: when the write of the beep file fails in a release that has        *)
(* deleted the boop file, the call tries once to write a boop file for the *)
(* releasing agent and ends with the error of the failed write: the        *)
(* directory is then held by that agent, or unclaimed when the rewrite     *)
(* failed as well; no beep file is there and the call reports no success.  *)
(***************************************************************************)
\* the catch block of the release of p ends
RestorationEnds(p) == pc[p] = "ewRestore" /\ pc'[p] = "done"

C32_FailedReleaseRestores ==
  [][\A p \in Procs :
       RestorationEnds(p) =>
         /\ ~res'[p].ok
         /\ res'[p].code = res[p].code
         /\ ~beep'.exists
         /\ boop'.exists =>
              /\ boop'.agentId = Trim(arg[p].agentId)
              /\ "wroteBoop" \in eff'[p]
         /\ "wroteBeep" \notin eff'[p]]_vars

\* a release whose write failed with PERMISSION_DENIED, and whose rewrite
\* failed too, has returned: the directory is unclaimed
C32_Witness ==
  /\ prev.op = "end_work"
  /\ ~prev.ok
  /\ faulted
  /\ pre.boop.exists
  /\ ~beep.exists
  /\ ~boop.exists
  /\ AllIdle

(***************************************************************************)
(* C33: semaphore conservation.  In every state of the client the free     *)
(* slots and the calls that hold one add up to the capacity, the free      *)
(* slots are 0..capacity, and a waiting call is queued and holds no slot;  *)
(* a call that has a slot gives it back in the step it ends in, whatever   *)
(* its outcome (an answer, the timeout, a failure of the network or of the *)
(* serialization), and in no other step is a slot given back.              *)
(***************************************************************************)
\* the call c, which has a slot, ends
Ends(c) == cpc[c] \in {"acquired", "fetching", "reading"} /\ cpc'[c] = "done"

\* a slot is given back: to the counter, or to the call queued first
SlotGivenBack ==
  \/ counter' = counter + 1 /\ queue' = queue
  \/ /\ queue # <<>>
     /\ queue' = Tail(queue)
     /\ counter' = counter
     /\ cpc'[Head(queue)] = "acquired"

Queued == {queue[i] : i \in 1..Len(queue)}

Conserved ==
  LET N == lcfg.maxConcurrentListenerRequests
      holders == {c \in Calls : cpc[c] \in {"acquired", "fetching", "reading"}}
  IN /\ counter \in 0..N
     /\ counter + Cardinality(holders) = N
     /\ \A c \in Calls : cpc[c] = "waiting" <=> c \in Queued
     /\ Queued \cap holders = {}

C33_SemaphoreConservation ==
  /\ []Conserved
  /\ [][/\ \A c \in Calls :
            Ends(c) =>
              /\ SlotGivenBack
              /\ call'[c].outcome \in {"response", "abort", "network", "serialization"}
              /\ \A d \in Calls \ {c} : ~Ends(d)
        /\ (counter' > counter \/ Len(queue') < Len(queue)) =>
              \E c \in Calls : Ends(c)]_vars

\* three calls have ended, by the timeout, by a failure of the network and
\* by an answer that is not 2xx, and every slot is free again
C33_Witness ==
  /\ \A c \in Calls : cpc[c] = "done"
  /\ {call[c].outcome : c \in Calls} = {"abort", "network", "response"}
  /\ \E c \in Calls : call[c].outcome = "response" /\ ~ResponseOk(call[c].status)
  /\ lcfg.maxConcurrentListenerRequests = 2
  /\ counter = 2
  /\ \E c \in Calls : call[c].waited

(***************************************************************************)
(* C34: a status query reports the state its two presence tests give       *)
(* (neither: unclaimed, beep only: released, boop only: held, both:        *)
(* conflict), and while claims and releases run on the directory the pair  *)
(* it reports is the pair the directory had at one instant between the     *)
(* start and the end of the query; it reports a conflict only when both    *)
(* markers were there at one instant.                                      *)
(***************************************************************************)
\* the query of p has its report
Reported(p) == pc[p] = "done" /\ arg[p].op = "check_status" /\ res[p].ok

\* the state of a marker pair
StateOfPair(pair) ==
  CASE pair = <<FALSE, FALSE>> -> "no_coordination"
    [] pair = <<TRUE, FALSE>> -> "work_allowed"
    [] pair = <<FALSE, TRUE>> -> "work_in_progress"
    [] pair = <<TRUE, TRUE>> -> "invalid_state"

C34_ReportIsASnapshot ==
  \A p \in Procs :
    Reported(p) =>
      /\ res[p].status = StateOfPair(<<st[p].beepExists, st[p].boopExists>>)
      /\ <<st[p].beepExists, st[p].boopExists>> \in seen[p]

(***************************************************************************)
(* C35: two agents claim the same released directory concurrently, each    *)
(* having read it as released, and no other tool is called meanwhile.  At  *)
(* most one of the two calls reports                                       *)
(* success; the other fails on the removal of the beep file, which is      *)
(* gone, and writes no boop file.                                          *)
(***************************************************************************)
\* the claims of p and q have their responses, both after a status of
\* released
RacingForReleased(p, q) ==
  /\ p # q
  /\ pc[p] = "done" /\ arg[p].op = "update_boop"
  /\ pc[q] = "done" /\ arg[q].op = "update_boop"
  /\ st[p].status = "work_allowed" /\ st[q].status = "work_allowed"
  /\ Trim(arg[p].agentId) # Trim(arg[q].agentId)

C35_OneClaimOfReleased ==
  \A p, q \in Procs :
    RacingForReleased(p, q) =>
      /\ ~(res[p].ok /\ res[q].ok)
      /\ \A r \in {p, q} :
           ~res[r].ok =>
             /\ res[r].code = "BEEP_REMOVE_FAILED"
             /\ "wroteBoop" \notin eff[r]
             /\ "removedBeep" \notin eff[r]

\* p1 lost the race: p2 removed the beep file and holds the directory
C35_Witness ==
  /\ RacingForReleased("p1", "p2")
  /\ ~res["p1"].ok
  /\ res["p2"].ok
  /\ boop.exists
  /\ boop.agentId = Trim(arg["p2"].agentId)
  /\ ~beep.exists

(***************************************************************************)
(* C36: the Discord message is sent and the creation of its thread fails.  *)
(* The call goes on: it stores the initiating record with no thread id,    *)
(* polls the inbox, and what it returns is no error: a reply, or the       *)
(* timeout carrying the id of the initiating record (or, when the inbox    *)
(* itself rejects, the answer that the message is sent but not stored).    *)
(***************************************************************************)
ThreadFailed ==
  conv.pc # "idle" /\ conv.platform = "discord" /\ conv.threadId = NoThread

StoredWithoutThread ==
  /\ InitiatingId \in inboxDir \cup processedDir
  /\ content[InitiatingId].platform = "discord"
  /\ content[InitiatingId].context.threadId = NoThread
  /\ content[InitiatingId].context.channelId = conv.channelId

C36_ThreadFailureIsNotFatal ==
  /\ [](ThreadFailed =>
         /\ conv.pc \in {"put", "loop", "scan", "sleep", "returned"}
         /\ conv.pc \in {"loop", "scan", "sleep"} => StoredWithoutThread
         /\ conv.pc = "returned" =>
              /\ ~conv.outcome.isError
              /\ conv.outcome.kind \in {"reply", "timeout", "not stored"}
              /\ conv.outcome.kind \in {"reply", "timeout"} =>
                    StoredWithoutThread
              /\ conv.outcome.kind = "timeout" =>
                    conv.outcome.id = InitiatingId)
  /\ [][/\ ThreadFailed /\ conv.pc = "put" /\ conv'.pc # "put"
         /\ conv'.outcome.kind # "not stored"
         => conv'.pc = "loop" /\ StoredWithoutThread']_vars
  /\ [][/\ ThreadFailed /\ conv.pc = "loop" /\ conv'.pc # "loop"
         /\ conv'.outcome.kind # "not stored"
         /\ withinDeadline(clock, conv.startTime)
         => conv'.pc = "scan" /\ conv'.pollCount = conv.pollCount + 1]_vars

C36_Witness ==
  /\ ThreadFailed
  /\ conv.pc = "returned"
  /\ conv.outcome.kind = "timeout"
  /\ conv.pollCount > 0
  /\ StoredWithoutThread

(***************************************************************************)
(* C37: initiate_conversation delegated under the default timeouts.  The   *)
(* caller has what a local call returns: its response is no error, and it  *)
(* is the reply or the timeout the polling loop of the listener returned.  *)
(***************************************************************************)
C37_DelegatedAsLocal ==
  \A c \in Calls :
    cpc[c] = "responded" /\ ToolOf(c) = "initiate_conversation" =>
      /\ ~call[c].response.isError
      /\ conv.pc = "returned"
      /\ conv.outcome.kind \in {"reply", "timeout"}

(***************************************************************************)
(* C38: a check_status call never waits for an initiate_conversation call  *)
(* to finish, also when both are delegated through the same client: the    *)
(* post of check_status is never queued in the semaphore while the calls   *)
(* that hold its slots are initiate calls waiting for their replies.       *)
(***************************************************************************)
HoldsSlot(c) == cpc[c] \in {"acquired", "fetching", "reading"}

C38_StatusNeverWaitsForInitiate ==
  \A c \in Calls :
    ToolOf(c) = "check_status" /\ cpc[c] = "waiting" =>
      ~ /\ \E d \in Calls : HoldsSlot(d)
        /\ \A d \in Calls :
             HoldsSlot(d) => ToolOf(d) = "initiate_conversation"

(***************************************************************************)
(* C39: under every interleaving of put, ack and updateThreadId no record  *)
(* id is in the unprocessed and in the processed partition at once: a      *)
(* record whose ack returned true is not listed among the unprocessed      *)
(* ones again.                                                             *)
(***************************************************************************)
C39_PartitionsExclusive == inboxDir \cap processedDir = {}

(***************************************************************************)
(* C40: every tool enforces the access policy.  When the policy rejects    *)
(* the directory (it is under a blocked prefix, or outside a non-empty     *)
(* allow-list), no call of create_beep, update_boop, end_work or           *)
(* check_status changes its markers.                                       *)
(***************************************************************************)
C40_RejectedDirectoryUntouched ==
  [][~isDirectoryAllowed(Directory, config) => beep' = beep /\ boop' = boop]_vars

====
